---------------------------- MODULE Spec2Model ----------------------------
(***************************************************************************)
(* A model of the vPPG health monitor: the PPGSignalProcessor class        *)
(* (src/lib/ppg-processor.ts), the biomarker formulas                      *)
(* (src/lib/biomarkers.ts) and the recording page with its remote          *)
(* biomarker request (src/unnamed/part_002).                               *)
(*                                                                         *)
(* Numbers.  The program computes in IEEE doubles.  The model represents   *)
(* a real x by the integer floor(x * Scale) (fixed point) wherever the     *)
(* source holds a fraction, and by the integer itself wherever the source  *)
(* value is integral (indices, intervals, rounded rates).  ROI rectangle   *)
(* coordinates are carried in hundredths of a pixel.                       *)
(***************************************************************************)
EXTENDS Integers, Sequences, FiniteSets, TLC

VARIABLES
  \* ---- PPGSignalProcessor fields (ppg-processor.ts:23-42)
  signalBuffer, rBuffer, gBuffer, bBuffer, timestampBuffer,
  heartRateHistory, breathingRateHistory, hrvHistory,
  lastPeakIndex, peakIndices,
  \* ---- environment of the processor: clock, camera scene, last call
  now, scene, ret, calls, resets,
  \* ---- history variables used by the properties only
  fed, onlyInvalid,
  \* ---- the input of a function applied on its own
  arg,
  \* ---- state of the recording page (part_002:27-38)
  isRecording, duration, measurements, graphData, currentMetric,
  signalQuality, lastDetectedFace,
  \* ---- its refs (part_002:40-45)
  recordingStartRef, durationIntervalRef, frameCountRef, ppgProcessorRef,
  signalBufferRef,
  \* ---- its environment: the handlers suspended at their fetch, the frame
  \* loop of the camera component with the values its handler captured, and
  \* the number of buttons pressed
  pending, frameLoop, clicks

procVars == <<signalBuffer, rBuffer, gBuffer, bBuffer, timestampBuffer,
              heartRateHistory, breathingRateHistory, hrvHistory,
              lastPeakIndex, peakIndices>>
envVars == <<now, scene, ret, calls, resets, fed, onlyInvalid>>
pureVars == <<arg>>
pageRefs == <<recordingStartRef, durationIntervalRef, frameCountRef,
              ppgProcessorRef, signalBufferRef>>
pageVars == <<isRecording, duration, measurements, graphData, currentMetric,
              signalQuality, lastDetectedFace, pageRefs, pending, frameLoop,
              clicks>>
vars == <<procVars, envVars, pureVars, pageVars>>

---------------------------------------------------------------------------
\* Bounds of the model
MaxFrames == 300         \* frames fed in one behaviour of Spec
MaxSessionFrames == 600  \* frames fed in one behaviour of SpecSession
MaxLongFrames == 1802    \* frames fed in one behaviour of SpecLong
MaxCalls == 1            \* getter calls between two frames
MaxResets == 1           \* reset() calls in one behaviour
MaxWindow == 16          \* samples in a window given to a peak detector
MaxPeakDistance == 3     \* largest minPeakDistance given to detectBreathingPeaks
MaxIbis == 6             \* intervals in a list given to filterOutlierIBIs
Scale == 10000           \* fixed-point resolution: 1 unit = 1/Scale
RandomUnit == 100        \* resolution of Math.random(): 1 unit = 1/RandomUnit
MaxPageFrames == 64      \* frames delivered to the page in SpecMonitor
MaxClicks == 3           \* buttons pressed in one behaviour of SpecMonitor
MaxSignal == 7           \* samples in a signal given to calculateBiomarkers
MaxDerivations == 2      \* calls of a derivation on the same input
StopTime == 61           \* the frame at which the user presses Stop at the latest
MaxFlightFrames == 70    \* frames of a recording with two requests in flight
MaxBreathFrames == 183   \* frames fed in one behaviour of SpecBreath

---------------------------------------------------------------------------
\* Program constants (field initialisers of PPGSignalProcessor)
maxBufferSize == 1800
samplingRate == 30
heartRateWindow10s == 300
heartRateWindow4s == 120
\* ... and of the page
RECORDING_DURATION == 30

---------------------------------------------------------------------------
\* Math helpers (Math.max, Math.min, Math.abs, Math.floor on hundredths,
\* Math.round on a fraction num/den with den > 0)
MathMax(a, b) == IF a > b THEN a ELSE b
MathMin(a, b) == IF a < b THEN a ELSE b
MathAbs(a) == IF a < 0 THEN 0 - a ELSE a
MathFloor(h) == h \div 100
\* Math.round(num/den) = floor(num/den + 1/2)
MathRound(num, den) == (2 * num + den) \div (2 * den)

\* Array.prototype.slice(-k): the last k elements (all of them when k >= length)
SliceLast(s, k) == IF Len(s) <= k THEN s ELSE SubSeq(s, Len(s) - k + 1, Len(s))

RECURSIVE SumSeq(_, _, _)
\* sum of s[lo..hi] (1-based, inclusive), by halving
SumSeq(s, lo, hi) ==
  IF lo > hi THEN 0
  ELSE IF lo = hi THEN s[lo]
  ELSE LET mid == (lo + hi) \div 2
       IN SumSeq(s, lo, mid) + SumSeq(s, mid + 1, hi)

---------------------------------------------------------------------------
\* ImageData: [width, height, data], data the row-major RGBA byte array
\* (1-based here, so data[idx + c] of the source is data[idx + c + 1]).
\* FaceROI: [x, y, width, height] in hundredths of a pixel.

\* the pixels visited by the two stride-2 loops (ppg-processor.ts:66-67)
SampledPixels(imageData, roi) ==
  LET x1 == MathMax(0, MathFloor(roi.x))
      y1 == MathMax(0, MathFloor(roi.y))
      x2 == MathMin(imageData.width, MathFloor(roi.x + roi.width))
      y2 == MathMin(imageData.height, MathFloor(roi.y + roi.height))
  IN {p \in (x1 .. (x2 - 1)) \X (y1 .. (y2 - 1)) :
        (p[1] - x1) % 2 = 0 /\ (p[2] - y1) % 2 = 0}

RECURSIVE SumChannel(_, _, _)
SumChannel(imageData, pixels, c) ==
  IF pixels = {} THEN 0
  ELSE LET p == CHOOSE q \in pixels : TRUE
           idx == (p[2] * imageData.width + p[1]) * 4
       IN imageData.data[idx + c + 1]
            + SumChannel(imageData, pixels \ {p}, c)

\* data[idx + 3] of the pixel (ppg-processor.ts:73)
AlphaAt(imageData, p) ==
  imageData.data[(p[2] * imageData.width + p[1]) * 4 + 4]

\* the channel averages over the counted pixels (ppg-processor.ts:74-90)
AverageColor(imageData, opaque) ==
  LET pixelCount == Cardinality(opaque)
  IN IF pixelCount = 0
       THEN [r |-> 0, g |-> 0, b |-> 0, valid |-> FALSE]
       ELSE [r |-> (SumChannel(imageData, opaque, 0) * Scale) \div pixelCount,
             g |-> (SumChannel(imageData, opaque, 1) * Scale) \div pixelCount,
             b |-> (SumChannel(imageData, opaque, 2) * Scale) \div pixelCount,
             valid |-> TRUE]

\* fault variant: a pixel of alpha exactly 200 is counted
extractROIColorAlphaFrom200(imageData, roi) ==
  AverageColor(imageData, {p \in SampledPixels(imageData, roi) :
                             AlphaAt(imageData, p) >= 200})

\* extractROIColor (ppg-processor.ts:48-91)
extractROIColor(imageData, roi) ==
  AverageColor(imageData, {p \in SampledPixels(imageData, roi) :
                             AlphaAt(imageData, p) > 200})

extractPPGSignal(imageData, roi) ==
  LET colors == extractROIColor(imageData, roi)
  IN IF ~colors.valid THEN 0
     ELSE LET r == colors.r \div 255
              g == colors.g \div 255
              b == colors.b \div 255
          IN g - ((r + b) \div 2)

\* fault variant: a full buffer keeps its oldest sample and drops the new one
PushKeepOldest(buf, v, cap) ==
  IF Len(buf) >= cap THEN buf ELSE Append(buf, v)

\* fault variant: nothing is ever dropped
PushUnbounded(buffer, value, capacity) == Append(buffer, value)

\* push followed by shift when over capacity (ppg-processor.ts:124-136)
PushBounded(buf, v, cap) ==
  LET pushed == Append(buf, v)
  IN IF Len(pushed) > cap THEN Tail(pushed) ELSE pushed

---------------------------------------------------------------------------
\* The camera scene supplies the frames.  A pulse scene shows a face whose
\* green channel follows a periodic wave; "outside", "empty" and
\* "transparent" are the three ways a frame yields no sampled pixel.
SineTable25 == <<0, 5, 10, 14, 17, 19, 20, 20, 18, 15, 12, 7, 3,
                 -3, -7, -12, -15, -18, -20, -20, -19, -17, -14, -10, -5>>

\* a triangular wave of the given period, its height divided by div
TriWave(period, div, k) ==
  LET x == k % period
  IN (IF 2 * x < period THEN 2 * x ELSE 2 * (period - x)) \div div

\* two breaths 61 frames apart: a ramp over each stretch of sc.period
\* frames, lowered in the first half of the later stretches and raised in
\* their second half
BreathsWave(period, k) ==
  LET stretch == k \div period
      phase == k % period
  IN 40 + (phase \div 2)
       + (IF stretch = 0 THEN 0 ELSE IF phase < 30 THEN 0 - 20 * stretch ELSE 19)

\* the pulse, riding on the slow rise and fall of the breath
Wave(sc, k) ==
  (IF sc.kind = "sine" THEN SineTable25[(k % 25) + 1]
   ELSE IF sc.kind = "breaths" THEN BreathsWave(sc.period, k)
   ELSE TriWave(sc.period, 1, k))
  + (IF sc.breath > 0 THEN TriWave(sc.breath, sc.div, k) ELSE 0)

Pixel(r, g, b, a) == <<r, g, b, a>>
\* a 3 x 2 image: the loops visit (0,0) and (2,0) of a ROI covering it
FaceImage(green, alpha) ==
  [width |-> 3, height |-> 2,
   data |-> Pixel(100, green, 100, alpha) \o Pixel(7, 7, 7, 0)
            \o Pixel(100, green, 100, alpha)
            \o Pixel(9, 9, 9, 255) \o Pixel(9, 9, 9, 255) \o Pixel(9, 9, 9, 255)]

FullROI == [x |-> 0, y |-> 0, width |-> 300, height |-> 150]
\* a rectangle entirely to the right of the image
OutsideROI == [x |-> 350, y |-> 0, width |-> 200, height |-> 100]
\* a rectangle of negative width: x2 < x1 after clamping
EmptyROI == [x |-> 120, y |-> 40, width |-> -50, height |-> 100]

\* frame number k of a scene
FrameOf(sc, k) ==
  IF sc.kind = "noface"
    THEN CASE k % 3 = 0 -> [imageData |-> FaceImage(128, 255), roi |-> OutsideROI]
           [] k % 3 = 1 -> [imageData |-> FaceImage(128, 255), roi |-> EmptyROI]
           [] OTHER -> [imageData |-> FaceImage(128 + (k % 2), 200),
                        roi |-> FullROI]
  ELSE IF sc.drop > 0 /\ k % sc.drop = sc.drop - 1
    THEN [imageData |-> FaceImage(128 + Wave(sc, k), 255), roi |-> OutsideROI]
    ELSE [imageData |-> FaceImage(128 + Wave(sc, k), 255), roi |-> FullROI]

\* drop > 0: the face leaves the rectangle on every drop-th frame;
\* breath > 0: the period in frames of the breathing wave
NoFace == [kind |-> "noface", period |-> 1, breath |-> 0, div |-> 1, drop |-> 0]
Sine25 == [kind |-> "sine", period |-> 25, breath |-> 0, div |-> 1, drop |-> 0]
Tri50Drop == [kind |-> "tri", period |-> 50, breath |-> 0, div |-> 1, drop |-> 75]
SineBreath == [kind |-> "sine", period |-> 25, breath |-> 250, div |-> 4, drop |-> 0]
Scenes == {NoFace, Sine25, Tri50Drop, SineBreath}
\* no pulse; the second breath peaks at frame 121
TwoBreaths == [kind |-> "breaths", period |-> 61, breath |-> 0, div |-> 1, drop |-> 0]

---------------------------------------------------------------------------
\* fault variant: the timestamp buffer is never shifted
addFrameKeepTimestamps(imageData, roi) ==
  LET signal == extractPPGSignal(imageData, roi)
      colors == extractROIColor(imageData, roi)
  IN /\ signalBuffer' = PushBounded(signalBuffer, signal, maxBufferSize)
     /\ rBuffer' = PushBounded(rBuffer, colors.r, maxBufferSize)
     /\ gBuffer' = PushBounded(gBuffer, colors.g, maxBufferSize)
     /\ bBuffer' = PushBounded(bBuffer, colors.b, maxBufferSize)
     /\ timestampBuffer' = Append(timestampBuffer, now)

\* PPGSignalProcessor.addFrame (ppg-processor.ts:119-137)
addFrame(imageData, roi) ==
  LET signal == extractPPGSignal(imageData, roi)
      colors == extractROIColor(imageData, roi)
  IN /\ signalBuffer' = PushBounded(signalBuffer, signal, maxBufferSize)
     /\ rBuffer' = PushBounded(rBuffer, colors.r, maxBufferSize)
     /\ gBuffer' = PushBounded(gBuffer, colors.g, maxBufferSize)
     /\ bBuffer' = PushBounded(bBuffer, colors.b, maxBufferSize)
     /\ timestampBuffer' = PushBounded(timestampBuffer, now, maxBufferSize)

\* fault variant: reset() leaves the three histories alone
resetBuffersOnly ==
  /\ signalBuffer' = <<>>
  /\ rBuffer' = <<>>
  /\ gBuffer' = <<>>
  /\ bBuffer' = <<>>
  /\ timestampBuffer' = <<>>
  /\ lastPeakIndex' = -1
  /\ peakIndices' = <<>>
  /\ UNCHANGED <<heartRateHistory, breathingRateHistory, hrvHistory>>

\* PPGSignalProcessor.reset (ppg-processor.ts:679-691)
reset ==
  /\ signalBuffer' = <<>>
  /\ rBuffer' = <<>>
  /\ gBuffer' = <<>>
  /\ bBuffer' = <<>>
  /\ timestampBuffer' = <<>>
  /\ heartRateHistory' = <<>>
  /\ breathingRateHistory' = <<>>
  /\ hrvHistory' = <<>>
  /\ lastPeakIndex' = -1
  /\ peakIndices' = <<>>

getBufferSize == Len(signalBuffer)

---------------------------------------------------------------------------
\* Signal-processing stages.  Windows are sequences of fixed-point samples;
\* index i of the source (0-based) is position i + 1 here.

RECURSIVE PrefixSums(_, _, _)
\* <<s[lo], s[lo]+s[lo+1], ...>>: the running sums the window loops add up
PrefixSums(s, lo, hi) ==
  IF lo > hi THEN << >>
  ELSE IF lo = hi THEN <<s[lo]>>
  ELSE LET mid == (lo + hi) \div 2
           left == PrefixSums(s, lo, mid)
           right == PrefixSums(s, mid + 1, hi)
           off == left[Len(left)]
       IN left \o [i \in 1 .. Len(right) |-> right[i] + off]

\* sum of signal[j] for start <= j < end (0-based), ps the running sums
WindowSum(ps, start, end) ==
  (IF end = 0 THEN 0 ELSE ps[end]) - (IF start = 0 THEN 0 ELSE ps[start])

\* the window mean "sum / (end - start)" for every index i, the window
\* running from max(0, i - back) to min(length, i + fwd) exclusive
MovingMean(signal, back, fwd) ==
  LET len == Len(signal)
      ps == PrefixSums(signal, 1, len)
  IN [k \in 1 .. len |->
        LET i == k - 1
            start == MathMax(0, i - back)
            end == MathMin(len, i + fwd)
        IN WindowSum(ps, start, end) \div (end - start)] \o << >>

\* detrendSignal (ppg-processor.ts:249-269)
detrendSignal(signal) ==
  IF Len(signal) < 10 THEN signal
  ELSE LET windowSize == samplingRate * 2
           baseline == MovingMean(signal, windowSize, windowSize)
       IN [k \in 1 .. Len(signal) |-> signal[k] - baseline[k]] \o << >>

\* bandpassFilterHeartRate (ppg-processor.ts:275-307)
bandpassFilterHeartRate(signal) ==
  IF Len(signal) < 10 THEN signal
  ELSE LET smoothWindow == 3
           \* Math.floor(3 / 2) = 1 back, Math.ceil(3 / 2) = 2 forward
           smoothed == MovingMean(signal, smoothWindow \div 2,
                                  (smoothWindow + 1) \div 2)
           \* Math.floor(samplingRate / 0.75)
           lowCutoffWindow == (samplingRate * 100) \div 75
           lowFreq == MovingMean(smoothed, lowCutoffWindow, 1)
       IN [k \in 1 .. Len(signal) |-> smoothed[k] - lowFreq[k]] \o << >>

RECURSIVE MinOf(_, _, _)
MinOf(s, lo, hi) ==
  IF lo = hi THEN s[lo]
  ELSE LET mid == (lo + hi) \div 2
       IN MathMin(MinOf(s, lo, mid), MinOf(s, mid + 1, hi))

RECURSIVE MaxOf(_, _, _)
MaxOf(s, lo, hi) ==
  IF lo = hi THEN s[lo]
  ELSE LET mid == (lo + hi) \div 2
       IN MathMax(MaxOf(s, lo, mid), MaxOf(s, mid + 1, hi))

\* normalizeSignal (ppg-processor.ts:312-322); range < 0.0001 is
\* range * 10000 < 1
normalizeSignal(signal) ==
  IF Len(signal) = 0 THEN << >>
  ELSE LET min == MinOf(signal, 1, Len(signal))
           max == MaxOf(signal, 1, Len(signal))
           range == max - min
       IN IF range * 10000 < Scale
            THEN [k \in 1 .. Len(signal) |-> Scale \div 2]
            ELSE [k \in 1 .. Len(signal) |->
                    ((signal[k] - min) * Scale) \div range] \o << >>

\* [...a].sort((x, y) => x - y)[k] (k 0-based): the value v with at most k
\* elements below it and more than k elements not above it, found by
\* bisection between the extremes
CountLE(s, v) == Cardinality({j \in 1 .. Len(s) : s[j] <= v})
RECURSIVE Bisect(_, _, _, _)
Bisect(s, k, lo, hi) ==
  IF lo >= hi THEN lo
  ELSE LET mid == (lo + hi) \div 2
       IN IF CountLE(s, mid) > k THEN Bisect(s, k, lo, mid)
          ELSE Bisect(s, k, mid + 1, hi)
SortedAt(s, k) == Bisect(s, k, MinOf(s, 1, Len(s)), MaxOf(s, 1, Len(s)))

\* the threshold of detectPeaksAdvanced (ppg-processor.ts:333-335):
\* sorted[Math.floor(sorted.length * 0.5)]
AdvancedThreshold(signal) == SortedAt(signal, Len(signal) \div 2)

\* fault variant: the distance from the last accepted peak is not tested
IsAdvancedPeakAnyDistance(signal, threshold, minPeakDistance, i, lastPeakIdx) ==
  LET val == signal[i + 1]
  IN /\ ~(val < threshold)
     /\ val > signal[i] /\ val > signal[i + 2]
     /\ val > signal[i - 1] /\ val > signal[i + 3]
     /\ val > signal[i - 2] /\ val > signal[i + 4]

\* fault variant: a candidate inside the exclusion zone is accepted when it is
\* higher than the last accepted peak
IsAdvancedPeakOrHigher(signal, threshold, minPeakDistance, i, lastPeakIdx) ==
  LET val == signal[i + 1]
  IN /\ ~(val < threshold)
     /\ val > signal[i] /\ val > signal[i + 2]
     /\ val > signal[i - 1] /\ val > signal[i + 3]
     /\ val > signal[i - 2] /\ val > signal[i + 4]
     /\ \/ ~(i - lastPeakIdx < minPeakDistance)
        \/ (lastPeakIdx >= 0 /\ val > signal[lastPeakIdx + 1])

\* the three tests of one loop iteration of detectPeaksAdvanced
\* (ppg-processor.ts:346-363), i 0-based, lastPeakIdx the last accepted peak
IsAdvancedPeak(signal, threshold, minPeakDistance, i, lastPeakIdx) ==
  LET val == signal[i + 1]
  IN /\ ~(val < threshold)
     /\ val > signal[i] /\ val > signal[i + 2]
     /\ val > signal[i - 1] /\ val > signal[i + 3]
     /\ val > signal[i - 2] /\ val > signal[i + 4]
     /\ ~(i - lastPeakIdx < minPeakDistance)

RECURSIVE ScanPeaks(_, _, _, _, _, _)
\* the loop over lo <= i < hi, started with lastPeakIdx; the accepted peaks
ScanPeaks(signal, threshold, minPeakDistance, lo, hi, lastPeakIdx) ==
  IF lo >= hi THEN << >>
  ELSE IF hi = lo + 1
    THEN IF IsAdvancedPeak(signal, threshold, minPeakDistance, lo, lastPeakIdx)
           THEN <<lo>> ELSE << >>
  ELSE LET mid == (lo + hi) \div 2
           first == ScanPeaks(signal, threshold, minPeakDistance, lo, mid,
                              lastPeakIdx)
           last == IF first = << >> THEN lastPeakIdx ELSE first[Len(first)]
       IN first \o ScanPeaks(signal, threshold, minPeakDistance, mid, hi, last)

\* detectPeaksAdvanced (ppg-processor.ts:328-371)
detectPeaksAdvanced(signal) ==
  IF Len(signal) < 10 THEN << >>
  ELSE LET threshold == AdvancedThreshold(signal)
           \* Math.floor(samplingRate * 0.3)
           minPeakDistance == (samplingRate * 3) \div 10
       IN ScanPeaks(signal, threshold, minPeakDistance, 3, Len(signal) - 3,
                    0 - minPeakDistance)

\* fault variant: the intervals span two beats
IBIsOverTwoBeats(peaks) ==
  [i \in 1 .. (Len(peaks) - 2) |-> peaks[i + 2] - peaks[i]] \o << >>

\* calculateIBIs (ppg-processor.ts:376-385)
calculateIBIs(peaks) ==
  [i \in 1 .. (Len(peaks) - 1) |-> peaks[i + 1] - peaks[i]] \o << >>

\* fault variant: the intervals beyond 2.5 * mad are the ones kept
filterKeepsOutliers(ibis) ==
  IF Len(ibis) < 2 THEN ibis
  ELSE LET median == SortedAt(ibis, Len(ibis) \div 2)
           deviations == [i \in 1 .. Len(ibis) |-> MathAbs(ibis[i] - median)]
           mad == SortedAt(deviations, Len(deviations) \div 2)
           Keep(val) == 2 * MathAbs(val - median) > 5 * mad
       IN IF mad = 0 THEN ibis ELSE SelectSeq(ibis, Keep)

\* fault variant: an interval exactly 2.5 * mad from the median is dropped
filterStrictlyInside(ibis) ==
  IF Len(ibis) < 2 THEN ibis
  ELSE LET median == SortedAt(ibis, Len(ibis) \div 2)
           deviations == [i \in 1 .. Len(ibis) |-> MathAbs(ibis[i] - median)]
           mad == SortedAt(deviations, Len(deviations) \div 2)
           Keep(val) == 2 * MathAbs(val - median) < 5 * mad
       IN IF mad = 0 THEN ibis ELSE SelectSeq(ibis, Keep)

\* filterOutlierIBIs (ppg-processor.ts:391-417); |v - median| <= 2.5 * mad
\* is 2 * |v - median| <= 5 * mad
filterOutlierIBIs(ibis) ==
  IF Len(ibis) < 2 THEN ibis
  ELSE LET median == SortedAt(ibis, Len(ibis) \div 2)
           deviations == [i \in 1 .. Len(ibis) |-> MathAbs(ibis[i] - median)]
           mad == SortedAt(deviations, Len(deviations) \div 2)
           Keep(val) == 2 * MathAbs(val - median) <= 5 * mad
       IN IF mad = 0 THEN ibis ELSE SelectSeq(ibis, Keep)

---------------------------------------------------------------------------
\* Heart rate.  The unrounded rate 60 / (avgIBI / samplingRate) is carried
\* exactly as the fraction num/den.

\* Math.max(45, Math.min(200, heartRate)) (ppg-processor.ts:230)
ClampHeartRate(hr) ==
  IF hr.num > 200 * hr.den THEN [num |-> 200, den |-> 1]
  ELSE IF hr.num < 45 * hr.den THEN [num |-> 45, den |-> 1]
  ELSE hr

\* fault variant: only the range is tested, not the distance from the history
isWithinRangeOnly(heartRate, history) ==
  ~(heartRate.num < 45 * heartRate.den \/ heartRate.num > 200 * heartRate.den)

\* isPhysiologicallyValid (ppg-processor.ts:422-446)
isPhysiologicallyValid(heartRate, history) ==
  IF heartRate.num < 45 * heartRate.den \/ heartRate.num > 200 * heartRate.den
    THEN FALSE
  ELSE IF Len(history) > 0
    THEN LET sum == SumSeq(history, 1, Len(history))
             \* diff = |heartRate - sum / length| > 25
             diffNum == MathAbs(heartRate.num * Len(history)
                                  - sum * heartRate.den)
         IN ~(diffNum > 25 * heartRate.den * Len(history))
  ELSE TRUE

\* 2^0 * h[0] + 2^1 * h[1] + ... and 2^0 + 2^1 + ... (ppg-processor.ts:467-471)
RECURSIVE Pow2(_)
Pow2(i) == IF i = 0 THEN 1 ELSE 2 * Pow2(i - 1)
RECURSIVE WeightedSum(_, _)
WeightedSum(h, n) ==
  IF n = 0 THEN 0 ELSE WeightedSum(h, n - 1) + h[n] * Pow2(n - 1)

\* fault variant: the plain mean of the history is returned
getPlainMeanHeartRate(history, newValue) ==
  LET hist == IF newValue > 0 THEN PushBounded(history, newValue, 6)
              ELSE history
  IN [hist |-> hist,
      val |-> IF Len(hist) = 0 THEN 0
              ELSE MathRound(SumSeq(hist, 1, Len(hist)), Len(hist))]

\* fault variant: a new value is pushed twice
getSmoothedHeartRatePushedTwice(history, newValue) ==
  LET hist == IF newValue > 0
                THEN PushBounded(PushBounded(history, newValue, 6), newValue, 6)
              ELSE history
  IN [hist |-> hist,
      val |-> IF Len(hist) = 0 THEN 0
              ELSE MathRound(WeightedSum(hist, Len(hist)),
                             Pow2(Len(hist)) - 1)]

\* getSmoothedHeartRate (ppg-processor.ts:451-474): the new history and
\* the value returned
getSmoothedHeartRate(history, newValue) ==
  LET hist == IF newValue > 0 THEN PushBounded(history, newValue, 6)
              ELSE history
  IN [hist |-> hist,
      val |-> IF Len(hist) = 0 THEN 0
              ELSE MathRound(WeightedSum(hist, Len(hist)),
                             Pow2(Len(hist)) - 1)]

\* steps 6-9 of calculateHeartRateForWindow (ppg-processor.ts:208-242)
HeartRateFromIBIs(ibis, history) ==
  IF Len(ibis) = 0 THEN getSmoothedHeartRate(history, 0)
  ELSE LET validIBIs == filterOutlierIBIs(ibis)
       IN IF Len(validIBIs) = 0 THEN getSmoothedHeartRate(history, 0)
          ELSE LET total == SumSeq(validIBIs, 1, Len(validIBIs))
                   \* 60 / ((total / length) / samplingRate)
                   heartRate ==
                     ClampHeartRate(
                       [num |-> 60 * samplingRate * Len(validIBIs),
                        den |-> total])
               IN IF ~isPhysiologicallyValid(heartRate, history)
                    THEN getSmoothedHeartRate(history, 0)
                    ELSE getSmoothedHeartRate(
                           history, MathRound(heartRate.num, heartRate.den))

\* steps 5-9 of calculateHeartRateForWindow (ppg-processor.ts:196-242)
HeartRateFromPeaks(peaks, history) ==
  IF Len(peaks) < 2 THEN getSmoothedHeartRate(history, 0)
  ELSE HeartRateFromIBIs(calculateIBIs(peaks), history)

\* the peaks of the heart-rate pipeline over one window (steps 1-4)
CardiacPeaks(recentSignal) ==
  detectPeaksAdvanced(
    normalizeSignal(bandpassFilterHeartRate(detrendSignal(recentSignal))))

\* fault variant: a short buffer answers with the smoothed history
HeartRateShortSmoothed(buffer, history, windowSize) ==
  IF Len(buffer) < windowSize THEN getSmoothedHeartRate(history, 0)
  ELSE HeartRateFromPeaks(CardiacPeaks(SliceLast(buffer, windowSize)), history)

\* calculateHeartRateForWindow (ppg-processor.ts:166-243)
calculateHeartRateForWindow(buffer, history, windowSize) ==
  IF Len(buffer) < windowSize THEN [hist |-> history, val |-> 0]
  ELSE HeartRateFromPeaks(CardiacPeaks(SliceLast(buffer, windowSize)), history)

---------------------------------------------------------------------------
\* Heart-rate variability

\* fault variant: a value of 0 is pushed like any other
getSmoothedHRVKeepsZero(history, newValue) ==
  LET hist == PushBounded(history, newValue, 5)
  IN [hist |-> hist, val |-> MathRound(SumSeq(hist, 1, Len(hist)), Len(hist))]

\* getSmoothedHRV (ppg-processor.ts:523-535)
getSmoothedHRV(history, newValue) ==
  LET hist == IF newValue > 0 THEN PushBounded(history, newValue, 5)
              ELSE history
  IN [hist |-> hist,
      val |-> IF Len(hist) = 0 THEN 0
              ELSE MathRound(SumSeq(hist, 1, Len(hist)), Len(hist))]

\* Math.round(Math.min(100, Math.max(0, sdnn))) (ppg-processor.ts:512-520).
\* An interval of d samples lasts d * 100 / 3 ms, so for n intervals with
\* x = n * (sum of d^2) - (sum of d)^2 the variance is 10000 * x / (9 * n^2)
\* exactly: sdnn >= 100 iff x >= 9 * n^2, and otherwise the rounded sdnn is
\* the largest r with (2r - 1)^2 * 9 * n^2 <= 40000 * x.
RECURSIVE RoundSqrtUpTo(_, _, _, _)
RoundSqrtUpTo(x, n, lo, hi) ==
  IF lo >= hi THEN lo
  ELSE LET mid == (lo + hi + 1) \div 2
       IN IF (2 * mid - 1) * (2 * mid - 1) * 9 * n * n <= 40000 * x
            THEN RoundSqrtUpTo(x, n, mid, hi)
            ELSE RoundSqrtUpTo(x, n, lo, mid - 1)
RoundedSdnn(x, n) ==
  IF x >= 9 * n * n THEN 100 ELSE RoundSqrtUpTo(x, n, 0, 100)

\* the SDNN part of getHRV (ppg-processor.ts:493-520)
HRVFromPeaks(peaks, history) ==
  IF Len(peaks) < 3 THEN getSmoothedHRV(history, 0)
  ELSE LET intervals ==
             [i \in 1 .. (Len(peaks) - 1) |-> peaks[i + 1] - peaks[i]] \o << >>
           n == Len(intervals)
       IN IF n < 2 THEN getSmoothedHRV(history, 0)
          ELSE LET squares ==
                     [i \in 1 .. n |-> intervals[i] * intervals[i]] \o << >>
                   total == SumSeq(intervals, 1, n)
               IN getSmoothedHRV(history,
                    RoundedSdnn(n * SumSeq(squares, 1, n) - total * total, n))

\* getHRV (ppg-processor.ts:480-521)
getHRV(buffer, history) ==
  IF Len(buffer) < 300 THEN [hist |-> history, val |-> 0]
  ELSE LET windowSize == MathMin(600, Len(buffer))
       IN HRVFromPeaks(CardiacPeaks(SliceLast(buffer, windowSize)), history)

---------------------------------------------------------------------------
\* Breathing rate

\* lowPassFilterBreathing (ppg-processor.ts:575-590)
lowPassFilterBreathing(signal) == MovingMean(signal, samplingRate * 2, 1)

\* the threshold of detectBreathingPeaks (ppg-processor.ts:597): 0.5
BreathingThreshold(signal) == Scale \div 2

\* the test of one loop iteration of detectBreathingPeaks
\* (ppg-processor.ts:600-608)
IsBreathingPeak(signal, minPeakDistance, i) ==
  /\ signal[i + 1] > BreathingThreshold(signal)
  /\ \A j \in 1 .. minPeakDistance :
       ~(signal[i + 1] <= signal[i + 1 - j] \/ signal[i + 1] <= signal[i + 1 + j])

RECURSIVE ScanBreathing(_, _, _, _, _)
\* the loop over lo <= i < hi; skipTo is the first index the loop variable
\* can take after the "i += minPeakDistance" of the last accepted peak
ScanBreathing(signal, minPeakDistance, lo, hi, skipTo) ==
  IF lo >= hi THEN << >>
  ELSE IF hi = lo + 1
    THEN IF lo >= skipTo /\ IsBreathingPeak(signal, minPeakDistance, lo)
           THEN <<lo>> ELSE << >>
  ELSE LET mid == (lo + hi) \div 2
           first == ScanBreathing(signal, minPeakDistance, lo, mid, skipTo)
           next == IF first = << >> THEN skipTo
                   ELSE first[Len(first)] + minPeakDistance + 1
       IN first \o ScanBreathing(signal, minPeakDistance, mid, hi, next)

\* detectBreathingPeaks (ppg-processor.ts:592-616)
detectBreathingPeaks(signal, minPeakDistance) ==
  ScanBreathing(signal, minPeakDistance, minPeakDistance,
                Len(signal) - minPeakDistance, 0)

\* getSmoothedBreathingRate (ppg-processor.ts:618-630)
getSmoothedBreathingRate(history, newValue) ==
  LET hist == IF newValue > 0 THEN PushBounded(history, newValue, 3)
              ELSE history
  IN [hist |-> hist,
      val |-> IF Len(hist) = 0 THEN 0
              ELSE MathRound(SumSeq(hist, 1, Len(hist)), Len(hist))]

\* fault variant: the rate is not clamped
UnclampedBreathingRate(br) == br

\* Math.max(8, Math.min(30, breathingRate)) (ppg-processor.ts:570)
ClampBreathingRate(br) ==
  IF br.num > 30 * br.den THEN [num |-> 30, den |-> 1]
  ELSE IF br.num < 8 * br.den THEN [num |-> 8, den |-> 1]
  ELSE br

\* the rate part of getBreathingRate (ppg-processor.ts:556-572)
BreathingRateFromPeaks(peaks, history) ==
  IF Len(peaks) < 2 THEN getSmoothedBreathingRate(history, 0)
  ELSE LET totalInterval == peaks[Len(peaks)] - peaks[1]
           \* 60 / ((totalInterval / (length - 1)) / samplingRate)
           breathingRate ==
             ClampBreathingRate([num |-> 60 * samplingRate * (Len(peaks) - 1),
                                 den |-> totalInterval])
       IN getSmoothedBreathingRate(
            history, MathRound(breathingRate.num, breathingRate.den))

\* fault variant: peaks may lie 0.4 s apart
getBreathingRateNearPeaks(buffer, history) ==
  IF Len(buffer) < 180 THEN [hist |-> history, val |-> 0]
  ELSE LET windowSize == MathMin(600, Len(buffer))
           recentSignal == SliceLast(buffer, windowSize)
           normalized == normalizeSignal(lowPassFilterBreathing(recentSignal))
           minPeakDistance == (samplingRate * 2) \div 5
       IN BreathingRateFromPeaks(
            detectBreathingPeaks(normalized, minPeakDistance), history)

\* getBreathingRate (ppg-processor.ts:540-573)
getBreathingRate(buffer, history) ==
  IF Len(buffer) < 180 THEN [hist |-> history, val |-> 0]
  ELSE LET windowSize == MathMin(600, Len(buffer))
           recentSignal == SliceLast(buffer, windowSize)
           normalized == normalizeSignal(lowPassFilterBreathing(recentSignal))
           minPeakDistance == samplingRate * 2
       IN BreathingRateFromPeaks(
            detectBreathingPeaks(normalized, minPeakDistance), history)

---------------------------------------------------------------------------
\* Signal quality

RECURSIVE SqrtFloor(_, _, _)
\* floor of the square root of v, by bisection
SqrtFloor(v, lo, hi) ==
  IF lo >= hi THEN lo
  ELSE LET mid == (lo + hi + 1) \div 2
       IN IF mid * mid <= v THEN SqrtFloor(v, mid, hi)
          ELSE SqrtFloor(v, lo, mid - 1)

\* getSignalQuality (ppg-processor.ts:643-660)
getSignalQuality(buffer) ==
  IF Len(buffer) < 60 THEN 0
  ELSE LET recentSignal == SliceLast(buffer, 90)
           n == Len(recentSignal)
           mean == SumSeq(recentSignal, 1, n) \div n
           squares == [i \in 1 .. n |-> (recentSignal[i] - mean)
                                          * (recentSignal[i] - mean)] \o << >>
           variance == SumSeq(squares, 1, n) \div n
           stdDev == SqrtFloor(variance, 0, 2 * Scale)
           \* Math.abs(mean) > 0.001 ? stdDev / Math.abs(mean) : 0
           hasMean == MathAbs(mean) * 1000 > Scale
       IN IF ~hasMean THEN 0
          ELSE IF 50 * stdDev >= 100 * MathAbs(mean) THEN 100
          ELSE MathRound(50 * stdDev, MathAbs(mean))

\* getBufferDuration (ppg-processor.ts:672-674), as the fraction num/den
getBufferDuration(buffer) == [num |-> Len(buffer), den |-> samplingRate]

---------------------------------------------------------------------------
\* Biomarker derivation (src/lib/biomarkers.ts and createFallbackBiomarkers
\* of the page).  A JavaScript object is a function from its property
\* names; a BiomarkerData has the nine properties of BiomarkerFields.  All
\* of them are integers except breathingRate, which calculateBreathingRate
\* may return unrounded: it is carried in units of 1/Scale everywhere.

\* Math.random(): a double in [0, 1), carried in units of 1/RandomUnit
RandomDraws == {0, RandomUnit - 1}

EmptyObject == [f \in {} |-> 0]
Null == [type |-> "null"]
Undefined == [type |-> "undefined"]
HasProperty(obj, f) == f \in DOMAIN obj
\* obj.f
Property(obj, f) == IF HasProperty(obj, f) THEN obj[f] ELSE Undefined

BiomarkerFields ==
  {"heartRate", "breathingRate", "hrv", "sysBP", "diaBP",
   "parasympatheticHealth", "wellnessValue", "stressIndex", "timestamp"}

Unclamped(lo, hi, v) == v
\* Math.max(lo, Math.min(hi, v))
Clamp(lo, hi, v) == MathMax(lo, MathMin(hi, v))

\* createFallbackBiomarkers (part_002:50-104); random holds the two
\* Math.random() draws, timestamp is Date.now()
createFallbackBiomarkers(heartRate, breathingRate, hrv, quality, random, timestamp) ==
  LET \* 90 + (heartRate - 60) * 0.3 + Math.random() * 10
      sysBP == MathRound(900 * RandomUnit + 3 * RandomUnit * (heartRate - 60)
                           + 100 * random[1],
                         10 * RandomUnit)
      \* 60 + (heartRate - 60) * 0.15 + Math.random() * 5
      diaBP == MathRound(6000 * RandomUnit + 15 * RandomUnit * (heartRate - 60)
                           + 500 * random[2],
                         100 * RandomUnit)
      \* hrv * 0.5 + (100 - |heartRate - 65|) * 0.5, in halves
      parasympatheticHealth ==
        Clamp(0, 200, hrv + (100 - MathAbs(heartRate - 65)))
      \* hrScore in thirds, brScore in quarters
      hrScore == MathMax(0, 300 - 2 * MathAbs(heartRate - 65))
      brScore == MathMax(0, 400 - 5 * MathAbs(breathingRate - 16))
      \* hrScore * 0.3 + brScore * 0.2 + hrv * 0.3 + quality * 0.2
      wellnessValue ==
        MathRound(2 * hrScore + brScore + 6 * hrv + 4 * quality, 20)
      \* |heartRate - 65| * 0.4 + (100 - hrv) * 0.3 + (100 - quality) * 0.3,
      \* in tenths
      stressIndex ==
        MathRound(Clamp(0, 1000, 4 * MathAbs(heartRate - 65)
                                   + 3 * (100 - hrv) + 3 * (100 - quality)),
                  10)
  IN [heartRate |-> heartRate,
      breathingRate |-> breathingRate * Scale,
      hrv |-> hrv,
      sysBP |-> Clamp(80, 180, sysBP),
      diaBP |-> Clamp(50, 120, diaBP),
      parasympatheticHealth |-> MathRound(parasympatheticHealth, 2),
      wellnessValue |-> Clamp(0, 100, wellnessValue),
      stressIndex |-> stressIndex,
      timestamp |-> timestamp]

RECURSIVE PeaksBetween(_, _, _, _, _)
\* the indices i (0-based) of lo..hi with signal[i] above the threshold
\* num/den and above both neighbours, in increasing order
PeaksBetween(signal, num, den, lo, hi) ==
  IF lo > hi THEN << >>
  ELSE IF lo = hi
    THEN IF /\ signal[lo + 1] * den > num
            /\ signal[lo + 1] > signal[lo]
            /\ signal[lo + 1] > signal[lo + 2]
           THEN <<lo>> ELSE << >>
  ELSE LET mid == (lo + hi) \div 2
       IN PeaksBetween(signal, num, den, lo, mid)
            \o PeaksBetween(signal, num, den, mid + 1, hi)

\* detectPeaks (biomarkers.ts:27-39), the threshold given as num/den
detectPeaks(signal, num, den) ==
  PeaksBetween(signal, num, den, 1, Len(signal) - 2)

\* calculateHeartRate (biomarkers.ts:42-63)
calculateHeartRate(signal, rate) ==
  IF Len(signal) = 0 THEN 0
  ELSE LET \* threshold = Math.max(...signal) * 0.7
           peaks == detectPeaks(signal, 7 * MaxOf(signal, 1, Len(signal)), 10)
           n == Len(peaks)
           totalInterval == peaks[n] - peaks[1]
       IN IF n < 2 THEN 0
          \* (samplingRate / avgInterval) * 60, clamped to [40, 200]
          ELSE MathRound(Clamp(40 * totalInterval, 200 * totalInterval,
                               60 * rate * (n - 1)),
                         totalInterval)

\* the five intervals of calculateBiomarkers (biomarkers.ts:215-219):
\* interval i is values[i] * unit.num / unit.den milliseconds
EstimatedRRIntervals(heartRate, random) ==
  [unit |-> [num |-> 600, den |-> MathMax(heartRate, 1) * RandomUnit],
   values |-> [i \in 1 .. 5 |-> 95 * RandomUnit + 10 * random[i]] \o << >>]

\* calculateHRV (biomarkers.ts:66-78); the standard deviation is taken of the
\* values less their minimum, which leaves it unchanged
calculateHRV(rRIntervals) ==
  LET values == rRIntervals.values
      n == Len(values)
      lowest == MinOf(values, 1, n)
      deviations == [i \in 1 .. n |-> values[i] - lowest] \o << >>
      squares == [i \in 1 .. n |-> deviations[i] * deviations[i]] \o << >>
      total == SumSeq(deviations, 1, n)
      \* n * n * variance of the values
      spread == n * SumSeq(squares, 1, n) - total * total
      root == SqrtFloor(spread, 0, 46340)
      \* sdnn * 0.5 = root * unit.num / (2 * n * unit.den)
      den == 2 * n * rRIntervals.unit.den
  IN IF n < 2 THEN 0
     ELSE MathRound(Clamp(0, 100 * den, root * rRIntervals.unit.num), den)

\* estimateBloodPressure (biomarkers.ts:81-101) with ageEstimate = 35
estimateBloodPressure(heartRate, signal) ==
  IF Len(signal) = 0
    \* Math.max() - Math.min() is -Infinity: both values clamp to the floor
    THEN [systolic |-> 80, diastolic |-> 50]
  ELSE LET n == Len(signal)
           signalAmplitude == MaxOf(signal, 1, n) - MinOf(signal, 1, n)
           \* 90 + (heartRate - 60) * 0.3 + signalAmplitude * 30 + 2
           systolic == 920 * Scale + 3 * Scale * (heartRate - 60)
                         + 300 * signalAmplitude
           \* 60 + (heartRate - 60) * 0.15 + signalAmplitude * 15 + 1
           diastolic == 6100 * Scale + 15 * Scale * (heartRate - 60)
                          + 1500 * signalAmplitude
       IN [systolic |-> MathRound(Clamp(800 * Scale, 1800 * Scale, systolic),
                                  10 * Scale),
           diastolic |-> MathRound(Clamp(5000 * Scale, 12000 * Scale,
                                         diastolic),
                                   100 * Scale)]

\* the envelopes of calculateBreathingRate (biomarkers.ts:112-119): windows
\* of 2 * rate samples starting every rate samples
Envelopes(signal, rate) ==
  LET windowSize == 2 * rate
      span == Len(signal) - windowSize
      count == IF span <= 0 THEN 0 ELSE (span + rate - 1) \div rate
  IN [j \in 1 .. count |->
        MaxOf(signal, (j - 1) * rate + 1, (j - 1) * rate + windowSize)
          - MinOf(signal, (j - 1) * rate + 1, (j - 1) * rate + windowSize)]
       \o << >>

\* calculateBreathingRate (biomarkers.ts:104-143), in units of 1/Scale.
\* Dividing the envelopes by their maximum keeps their order, so the peaks
\* of e / max above 0.4 are the peaks of e above 0.4 * max; a maximum of 0
\* makes every quotient NaN, which is above nothing.
calculateBreathingRate(signal, rate, random) ==
  LET envelopes == Envelopes(signal, rate)
      peaks == detectPeaks(envelopes,
                           4 * MaxOf(envelopes, 1, Len(envelopes)), 10)
      n == Len(peaks)
      totalInterval == peaks[n] - peaks[1]
  IN IF Len(envelopes) < 2 THEN 0
     \* 12 + Math.random() * 8
     ELSE IF n < 2 THEN 12 * Scale + (8 * random * Scale) \div RandomUnit
     \* (samplingRate / (avgInterval * 2)) * 60, clamped to [8, 30]
     ELSE Scale * MathRound(Clamp(8 * totalInterval, 30 * totalInterval,
                                  30 * rate * (n - 1)),
                            totalInterval)

\* calculateParasympatheticHealth (biomarkers.ts:146-157)
calculateParasympatheticHealth(hrv, heartRate) ==
  LET \* (hrv / 100) * 50, in quarters
      hrvScore == 2 * hrv
      \* (100 - |heartRate - 60| / 2) * 0.5, in quarters
      hrScore == MathMax(0, 200 - MathAbs(heartRate - 60))
  IN Clamp(0, 100, MathRound(hrvScore + hrScore, 4))

\* calculateWellnessValue (biomarkers.ts:160-182); the weighted sum is
\* taken over the common denominator 240 * Scale
calculateWellnessValue(data) ==
  LET \* in thirds
      hrScore == MathMax(0, 300 - 2 * MathAbs(data.heartRate - 65))
      \* in units of 1 / (4 * Scale)
      brScore == MathMax(0, 400 * Scale
                              - 5 * MathAbs(data.breathingRate - 16 * Scale))
      bpScore == MathMax(0, 300 - 2 * MathAbs(data.sysBP - 120))
      wellness == 16 * Scale * hrScore + 9 * brScore
                    + 60 * Scale * data.hrv + 16 * Scale * bpScore
                    + 48 * Scale * data.parasympatheticHealth
  IN MathRound(Clamp(0, 100 * 240 * Scale, wellness), 240 * Scale)

\* calculateStressIndex (biomarkers.ts:185-203), over the denominator
\* 48 * Scale
calculateStressIndex(data) ==
  LET hrStress == 8 * Scale * MathAbs(data.heartRate - 65)
      brStress == 15 * MathAbs(data.breathingRate - 16 * Scale)
      hrvStress == 6 * Scale * (100 - data.hrv)
      psStress == 12 * Scale * (100 - data.parasympatheticHealth)
      stressIndex == hrStress + brStress + hrvStress + psStress
  IN MathRound(Clamp(0, 100 * 48 * Scale, stressIndex), 48 * Scale)

\* calculateBiomarkers (biomarkers.ts:206-259); random holds the draws of
\* Math.random(): the first for the breathing rate, the next five for the
\* intervals
calculateBiomarkers(signal, rate, random, timestamp) ==
  LET heartRate == calculateHeartRate(signal, rate)
      breathingRate == calculateBreathingRate(signal, rate, random[1])
      hrv == calculateHRV(EstimatedRRIntervals(heartRate, Tail(random)))
      bp == estimateBloodPressure(heartRate, signal)
      parasympatheticHealth == calculateParasympatheticHealth(hrv, heartRate)
      data == [heartRate |-> heartRate, breathingRate |-> breathingRate,
               hrv |-> hrv, sysBP |-> bp.systolic,
               parasympatheticHealth |-> parasympatheticHealth]
  IN [heartRate |-> heartRate,
      breathingRate |-> breathingRate,
      hrv |-> hrv,
      sysBP |-> bp.systolic,
      diaBP |-> bp.diastolic,
      parasympatheticHealth |-> parasympatheticHealth,
      wellnessValue |-> calculateWellnessValue(data),
      stressIndex |-> calculateStressIndex(data),
      timestamp |-> timestamp]

\* the page after its first render (part_002:27-45)
InitPage ==
  /\ isRecording = FALSE /\ duration = 0
  /\ measurements = << >> /\ graphData = << >>
  /\ currentMetric = Null /\ signalQuality = 0 /\ lastDetectedFace = Null
  /\ recordingStartRef = Null
  /\ durationIntervalRef = [active |-> FALSE, due |-> 0]
  /\ frameCountRef = 0 /\ ppgProcessorRef = "null"
  /\ signalBufferRef = << >>
  /\ pending = << >>
  /\ frameLoop = [running |-> FALSE, isRecording |-> FALSE, duration |-> 0,
                  lastDetectedFace |-> Null]
  /\ clicks = 0

---------------------------------------------------------------------------
\* The processor as a state machine: one action per public method.
\* ret records the last call and the value it returned.

Returned(op, val) == [op |-> op, val |-> val]

InitProcessor ==
  /\ signalBuffer = << >> /\ rBuffer = << >> /\ gBuffer = << >>
  /\ bBuffer = << >> /\ timestampBuffer = << >>
  /\ heartRateHistory = << >> /\ breathingRateHistory = << >>
  /\ hrvHistory = << >>
  /\ lastPeakIndex = -1 /\ peakIndices = << >>

Init ==
  /\ InitProcessor
  /\ now = 0 /\ scene \in Scenes /\ ret = Returned("new", 0)
  /\ calls = 0 /\ resets = 0
  /\ fed = << >> /\ onlyInvalid = TRUE
  /\ arg = << >>
  /\ InitPage

\* the buffer lengths at which the getters are called in the first ten
\* seconds: the two sides of every minimum window
ProbeLengths ==
  {0, 59, 60, heartRateWindow4s - 1, heartRateWindow4s, 179, 180,
   heartRateWindow10s - 1, heartRateWindow10s}
\* ... in a session of twenty seconds: at both full windows
SessionProbeLengths == {0, heartRateWindow10s, 600}
\* ... and on a buffer at its capacity
LongProbeLengths == {maxBufferSize, maxBufferSize + 1, maxBufferSize + 2}
\* the buffer lengths at which reset() is called
ResetLengths == {180, heartRateWindow10s}
SessionResetLengths == {600}

\* the frame shows no pixel to sample: the rectangle misses the image, is
\* empty after clamping, or covers only pixels of alpha at most 200
HasNoSampledPixel(imageData, roi) ==
  \A p \in SampledPixels(imageData, roi) : AlphaAt(imageData, p) <= 200

CanCall(lengths) == Len(fed) \in lengths /\ calls < MaxCalls

\* addFrame(imageData, roi) on the next frame of the scene
AddFrame(limit) ==
  /\ now < limit
  /\ LET frame == FrameOf(scene, Len(fed))
     IN /\ addFrame(frame.imageData, frame.roi)
        /\ fed' = Append(fed, extractPPGSignal(frame.imageData, frame.roi))
        /\ onlyInvalid' =
             (onlyInvalid /\ HasNoSampledPixel(frame.imageData, frame.roi))
  /\ now' = now + 1
  /\ ret' = Returned("addFrame", 0)
  /\ calls' = 0
  /\ UNCHANGED <<heartRateHistory, breathingRateHistory, hrvHistory,
                 lastPeakIndex, peakIndices, scene, resets, pureVars, pageVars>>

Getter(op, val) ==
  /\ ret' = Returned(op, val)
  /\ calls' = calls + 1
  /\ UNCHANGED <<signalBuffer, rBuffer, gBuffer, bBuffer, timestampBuffer,
                 lastPeakIndex, peakIndices, now, scene, resets, fed,
                 onlyInvalid, pureVars, pageVars>>

\* getHeartRate() = getHeartRate10s() (ppg-processor.ts:143-160)
GetHeartRate(lengths) ==
  /\ CanCall(lengths)
  /\ LET r == calculateHeartRateForWindow(signalBuffer, heartRateHistory,
                                          heartRateWindow10s)
     IN /\ heartRateHistory' = r.hist
        /\ Getter("getHeartRate", r.val)
  /\ UNCHANGED <<breathingRateHistory, hrvHistory>>

\* getHeartRate4s() (ppg-processor.ts:151-153)
GetHeartRate4s(lengths) ==
  /\ CanCall(lengths)
  /\ LET r == calculateHeartRateForWindow(signalBuffer, heartRateHistory,
                                          heartRateWindow4s)
     IN /\ heartRateHistory' = r.hist
        /\ Getter("getHeartRate4s", r.val)
  /\ UNCHANGED <<breathingRateHistory, hrvHistory>>

GetHRV(lengths) ==
  /\ CanCall(lengths)
  /\ LET r == getHRV(signalBuffer, hrvHistory)
     IN /\ hrvHistory' = r.hist
        /\ Getter("getHRV", r.val)
  /\ UNCHANGED <<heartRateHistory, breathingRateHistory>>

GetBreathingRate(lengths) ==
  /\ CanCall(lengths)
  /\ LET r == getBreathingRate(signalBuffer, breathingRateHistory)
     IN /\ breathingRateHistory' = r.hist
        /\ Getter("getBreathingRate", r.val)
  /\ UNCHANGED <<heartRateHistory, hrvHistory>>

GetSignalQuality(lengths) ==
  /\ CanCall(lengths)
  /\ Getter("getSignalQuality", getSignalQuality(signalBuffer))
  /\ UNCHANGED <<heartRateHistory, breathingRateHistory, hrvHistory>>

GetBufferSize(lengths) ==
  /\ CanCall(lengths)
  /\ Getter("getBufferSize", getBufferSize)
  /\ UNCHANGED <<heartRateHistory, breathingRateHistory, hrvHistory>>

GetBufferDuration(lengths) ==
  /\ CanCall(lengths)
  /\ Getter("getBufferDuration", getBufferDuration(signalBuffer).num)
  /\ UNCHANGED <<heartRateHistory, breathingRateHistory, hrvHistory>>

\* reset(); the camera may show another scene afterwards
Reset(lengths) ==
  /\ Len(fed) \in lengths
  /\ resets < MaxResets
  /\ reset
  /\ resets' = resets + 1
  /\ ret' = Returned("reset", 0)
  /\ calls' = 0
  /\ fed' = << >>
  /\ onlyInvalid' = TRUE
  /\ scene' \in Scenes
  /\ UNCHANGED <<now, pureVars, pageVars>>

Next ==
  \/ AddFrame(MaxFrames)
  \/ GetHeartRate(ProbeLengths)
  \/ GetHeartRate4s(ProbeLengths)
  \/ GetHRV(ProbeLengths)
  \/ GetBreathingRate(ProbeLengths)
  \/ GetSignalQuality(ProbeLengths)
  \/ GetBufferSize(ProbeLengths)
  \/ GetBufferDuration(ProbeLengths)
  \/ Reset(ResetLengths)

Spec == Init /\ [][Next]_vars

\* a session of twenty seconds, read when the windows are full
NextSession ==
  \/ AddFrame(MaxSessionFrames)
  \/ GetHeartRate(SessionProbeLengths)
  \/ GetHeartRate4s(SessionProbeLengths)
  \/ GetHRV(SessionProbeLengths)
  \/ GetBreathingRate(SessionProbeLengths)
  \/ GetSignalQuality(SessionProbeLengths)
  \/ GetBufferSize(SessionProbeLengths)
  \/ GetBufferDuration(SessionProbeLengths)
  \/ Reset(SessionResetLengths)

SpecSession == Init /\ [][NextSession]_vars

\* the same processor run past the capacity of its buffers
NextLong ==
  \/ AddFrame(MaxLongFrames)
  \/ GetHeartRate(LongProbeLengths)
  \/ GetHRV(LongProbeLengths)
  \/ GetBreathingRate(LongProbeLengths)
  \/ GetSignalQuality(LongProbeLengths)
  \/ GetBufferSize(LongProbeLengths)
  \/ Reset(LongProbeLengths)

SpecLong == Init /\ [][NextLong]_vars

\* the breathing rate read on both sides of its minimum window of 180
\* samples and of the 182 samples that two peaks need
BreathProbeLengths == {179, 180, 181, 182, MaxBreathFrames}
BreathResetLengths == {181}
InitBreath ==
  /\ InitProcessor
  /\ now = 0 /\ scene \in Scenes \cup {TwoBreaths} /\ ret = Returned("new", 0)
  /\ calls = 0 /\ resets = 0
  /\ fed = << >> /\ onlyInvalid = TRUE
  /\ arg = << >>
  /\ InitPage

NextBreath ==
  \/ AddFrame(MaxBreathFrames)
  \/ GetBreathingRate(BreathProbeLengths)
  \/ GetBufferSize(BreathProbeLengths)
  \/ Reset(BreathResetLengths)

SpecBreath == InitBreath /\ [][NextBreath]_vars

---------------------------------------------------------------------------
\* The two peak detectors applied to a window of their own.  A window is a
\* normalised signal whose samples are 0 or 1; it is too short for
\* detectPeaksAdvanced (9 samples) or has MaxWindow samples.  SparseWindows
\* adds the windows of MaxWindow samples that are 0 except for one sample of
\* 1 and at most one more of 0.5 or 1.

SparseWindows ==
  {[j \in 1 .. MaxWindow |-> IF j = a THEN Scale ELSE IF j = b THEN x ELSE 0] : a, b \in 1 .. MaxWindow, x \in {Scale \div 2, Scale}}

Windows ==
  [1 .. 9 -> {0, Scale}] \cup [1 .. MaxWindow -> {0, Scale}] \cup SparseWindows

InitPeaks ==
  /\ InitProcessor
  /\ now = 0 /\ scene = NoFace /\ ret = Returned("new", 0)
  /\ calls = 0 /\ resets = 0
  /\ fed = << >> /\ onlyInvalid = TRUE
  /\ arg \in Windows
  /\ InitPage

DetectPeaksAdvanced ==
  /\ ret.op = "new"
  /\ ret' = IF Len(arg) < 10
              \* returns before it computes a threshold
              THEN Returned("detectPeaksAdvanced", detectPeaksAdvanced(arg))
              ELSE [op |-> "detectPeaksAdvanced",
                    val |-> detectPeaksAdvanced(arg),
                    threshold |-> AdvancedThreshold(arg)]
  /\ UNCHANGED <<procVars, now, scene, calls, resets, fed, onlyInvalid,
                 pureVars, pageVars>>

DetectBreathingPeaks ==
  /\ ret.op = "new"
  /\ \E minPeakDistance \in 1 .. MaxPeakDistance :
       ret' = [op |-> "detectBreathingPeaks",
               val |-> detectBreathingPeaks(arg, minPeakDistance),
               minPeakDistance |-> minPeakDistance,
               threshold |-> BreathingThreshold(arg)]
  /\ UNCHANGED <<procVars, now, scene, calls, resets, fed, onlyInvalid,
                 pureVars, pageVars>>

NextPeaks == DetectPeaksAdvanced \/ DetectBreathingPeaks

SpecPeaks == InitPeaks /\ [][NextPeaks]_vars

---------------------------------------------------------------------------
\* filterOutlierIBIs and the rate computed from the intervals, applied to an
\* interval list of their own

IbiValues == {16, 19, 20, 21, 80}
RECURSIVE SeqsUpTo(_, _)
\* the sequences over values of length at most n
SeqsUpTo(values, n) ==
  IF n = 0 THEN {<< >>}
  ELSE LET shorter == SeqsUpTo(values, n - 1)
       IN shorter \cup {Append(q, v) : q \in shorter, v \in values}

InitIbis ==
  /\ InitProcessor
  /\ now = 0 /\ scene = NoFace /\ ret = Returned("new", 0)
  /\ calls = 0 /\ resets = 0
  /\ fed = << >> /\ onlyInvalid = TRUE
  /\ arg \in SeqsUpTo(IbiValues, MaxIbis)
  /\ InitPage

FilterOutlierIBIs ==
  /\ ret.op = "new"
  /\ ret' = Returned("filterOutlierIBIs", filterOutlierIBIs(arg))
  /\ UNCHANGED <<procVars, now, scene, calls, resets, fed, onlyInvalid,
                 pureVars, pageVars>>

\* the rate calculateHeartRateForWindow derives from the intervals, with an
\* empty history
RateOfIntervals ==
  /\ ret.op = "new"
  /\ ret' = Returned("calculateHeartRateForWindow",
                     HeartRateFromIBIs(arg, << >>).val)
  /\ UNCHANGED <<procVars, now, scene, calls, resets, fed, onlyInvalid,
                 pureVars, pageVars>>

NextIbis == FilterOutlierIBIs \/ RateOfIntervals

SpecIbis == InitIbis /\ [][NextIbis]_vars

---------------------------------------------------------------------------
\* POST /api/biomarkers (part_002:617-658).  A request body is the value
\* request.json() gives: an object, null, or NotJSON when the text does not
\* parse.  A value in a body carries its type: an array its values, any
\* other value its JSON text.  The answer is [status, body].  random holds the Math.random() draws of
\* calculateBiomarkers.
NotJSON == [type |-> "SyntaxError"]

Array(values) == [type |-> "array", values |-> values]
Scalar(type, json) == [type |-> type, json |-> json]
NonArrays ==
  {Null, Scalar("number", "0"), Scalar("number", "5"),
   Scalar("string", "\"\""), Scalar("string", "\"abc\""),
   Scalar("boolean", "false"), Scalar("boolean", "true"),
   Scalar("object", "{}")}

\* !value
Falsy(value) ==
  \/ value.type \in {"undefined", "null"}
  \/ /\ value.type \in {"number", "string", "boolean"}
     /\ value.json \in {"0", "\"\"", "false"}

\* Array.isArray(value)
IsArray(value) == value.type = "array"

\* signal.length < 5 (part_002:629)
TooShortAt4(signal) == Len(signal.values) < 4
TooShort(signal) == Len(signal.values) < 5

\* One run of the handler: its answer, the exception it caught and the
\* calls it made into lib/biomarkers.
POSTRun(body, random, timestamp) ==
  IF body = NotJSON
    \* request.json() throws: the catch answers 500
    THEN [response |-> [status |-> 500,
                        body |-> [error |-> "Failed to calculate biomarkers"]],
          thrown |-> "SyntaxError", called |-> << >>]
  ELSE IF body = Null
    \* destructuring null throws: the catch answers 500
    THEN [response |-> [status |-> 500,
                        body |-> [error |-> "Failed to calculate biomarkers"]],
          thrown |-> "TypeError", called |-> << >>]
  ELSE LET signal == Property(body, "signal")
           rate == IF HasProperty(body, "samplingRate")
                     THEN body.samplingRate ELSE 30
       IN IF Falsy(signal) \/ ~IsArray(signal)
            THEN [response |->
                    [status |-> 400,
                     body |-> [error |->
                       "Invalid signal data. Expected array of numbers."]],
                  thrown |-> "", called |-> << >>]
          ELSE IF TooShort(signal)
            THEN [response |->
                    [status |-> 400,
                     body |-> [error |->
                       "Insufficient signal data. Need at least 5 samples."]],
                  thrown |-> "", called |-> << >>]
          ELSE [response |->
                  [status |-> 200,
                   body |-> [success |-> TRUE,
                             data |-> calculateBiomarkers(signal.values, rate,
                                                          random, timestamp),
                             metadata |-> [signalLength |-> Len(signal.values),
                                           samplingRate |-> rate]]],
                thrown |-> "", called |-> <<"calculateBiomarkers">>]

POST(body, random, timestamp) == POSTRun(body, random, timestamp).response

---------------------------------------------------------------------------
\* The recording page (part_002:26-282) as a state machine.  Time is counted
\* in frames: the camera delivers samplingRate frames per second, so the
\* one-second interval timer is due every samplingRate frames.

InitMonitor ==
  /\ InitProcessor
  /\ now = 0 /\ scene = Sine25 /\ ret = Returned("mount", 0)
  /\ calls = 0 /\ resets = 0
  /\ fed = << >> /\ onlyInvalid = TRUE
  /\ arg = << >>
  /\ InitPage

\* the instants, in frames, at which the user stops or resets
ClickTimes == {45, StopTime}

\* the rectangle used while no face is known (part_002:114-119), in
\* hundredths of a pixel
CenterROI(imageData) ==
  [x |-> imageData.width * 25, y |-> imageData.height * 15,
   width |-> imageData.width * 50, height |-> imageData.height * 60]

\* the timer callback is due and runs before the next frame
TimerDue == durationIntervalRef.active /\ now >= durationIntervalRef.due

\* setCurrentMetric, setMeasurements, setGraphData (part_002:196-210);
\* time is the duration the handler captured
Publish(biomarkerData, time) ==
  /\ currentMetric' = biomarkerData
  /\ measurements' = Append(measurements, biomarkerData)
  /\ graphData' =
       Append(graphData,
              [time |-> time,
               heartRate |-> Property(biomarkerData, "heartRate"),
               breathingRate |-> Property(biomarkerData, "breathingRate"),
               hrv |-> Property(biomarkerData, "hrv"),
               stress |-> Property(biomarkerData, "stressIndex")])

\* startRecording (part_002:224-250).  The page renders with isRecording
\* true, and the effect of the camera component (camera-feed.tsx:87-93)
\* starts the frame loop with the handler of that render, which has captured
\* isRecording, duration and lastDetectedFace (part_002:220).
StartRecording ==
  /\ ~isRecording
  /\ clicks < MaxClicks
  /\ clicks' = clicks + 1
  /\ isRecording' = TRUE /\ duration' = 0
  /\ measurements' = << >> /\ graphData' = << >>
  /\ currentMetric' = Null /\ signalQuality' = 0
  /\ frameCountRef' = 0 /\ signalBufferRef' = << >>
  /\ recordingStartRef' = now
  /\ ppgProcessorRef' = "PPGSignalProcessor"
  /\ signalBuffer' = << >> /\ rBuffer' = << >> /\ gBuffer' = << >>
  /\ bBuffer' = << >> /\ timestampBuffer' = << >>
  /\ heartRateHistory' = << >> /\ breathingRateHistory' = << >>
  /\ hrvHistory' = << >>
  /\ lastPeakIndex' = -1 /\ peakIndices' = << >>
  /\ durationIntervalRef' = [active |-> TRUE, due |-> now + samplingRate]
  /\ frameLoop' = [running |-> TRUE, isRecording |-> TRUE, duration |-> 0,
                   lastDetectedFace |-> lastDetectedFace]
  /\ fed' = << >> /\ onlyInvalid' = TRUE /\ calls' = 0
  /\ ret' = Returned("startRecording", 0)
  /\ UNCHANGED <<lastDetectedFace, pending, now, scene, resets, pureVars>>

\* stopRecording (part_002:253-261) and the effect that cancels the frame loop
StopLoop ==
  /\ isRecording' = FALSE
  /\ durationIntervalRef' = [durationIntervalRef EXCEPT !.active = FALSE]
  /\ frameLoop' = [frameLoop EXCEPT !.running = FALSE]

StopRecording ==
  /\ isRecording
  /\ now \in ClickTimes
  /\ clicks < MaxClicks
  /\ clicks' = clicks + 1
  /\ StopLoop
  /\ ret' = Returned("stopRecording", 0)
  /\ UNCHANGED <<procVars, duration, measurements, graphData, currentMetric,
                 signalQuality, lastDetectedFace, recordingStartRef,
                 frameCountRef, ppgProcessorRef, signalBufferRef, pending,
                 now, scene, calls, resets, fed, onlyInvalid, pureVars>>

\* resetMeasurements (part_002:264-282)
ResetMeasurements ==
  /\ now \in ClickTimes
  /\ clicks < MaxClicks
  /\ clicks' = clicks + 1
  /\ StopLoop
  /\ duration' = 0
  /\ measurements' = << >> /\ graphData' = << >>
  /\ currentMetric' = Null /\ signalQuality' = 0
  /\ frameCountRef' = 0 /\ signalBufferRef' = << >>
  /\ IF ppgProcessorRef # "null" THEN reset ELSE UNCHANGED procVars
  /\ fed' = << >> /\ onlyInvalid' = TRUE /\ calls' = 0
  /\ ret' = Returned("resetMeasurements", 0)
  /\ UNCHANGED <<lastDetectedFace, recordingStartRef, ppgProcessorRef,
                 pending, now, scene, resets, pureVars>>

\* the interval callback of startRecording (part_002:240-249)
Tick ==
  /\ TimerDue
  /\ LET newDuration == duration + 1
     IN IF newDuration >= RECORDING_DURATION
          THEN /\ StopLoop
               /\ duration' = RECORDING_DURATION
          ELSE /\ duration' = newDuration
               /\ durationIntervalRef' =
                    [durationIntervalRef EXCEPT !.due = @ + samplingRate]
               /\ UNCHANGED <<isRecording, frameLoop>>
  /\ ret' = Returned("setInterval", 0)
  /\ UNCHANGED <<procVars, measurements, graphData, currentMetric,
                 signalQuality, lastDetectedFace, recordingStartRef,
                 frameCountRef, ppgProcessorRef, signalBufferRef, pending,
                 clicks, now, scene, calls, resets, fed, onlyInvalid,
                 pureVars>>

\* the face detector, which runs on every frame (camera-feed.tsx:113), finds
\* the face at the frame FaceTime of the scene
FaceTime == 10
FaceDue == frameLoop.running /\ lastDetectedFace = Null /\ now = FaceTime

\* setLastDetectedFace, called by the face detector (part_002:341,
\* camera-feed.tsx:29-33)
FaceDetected ==
  /\ FaceDue
  /\ lastDetectedFace' = FullROI
  /\ ret' = Returned("setLastDetectedFace", 0)
  /\ UNCHANGED <<procVars, isRecording, duration, measurements, graphData,
                 currentMetric, signalQuality, pageRefs, pending, frameLoop,
                 clicks, now, scene, calls, resets, fed, onlyInvalid,
                 pureVars>>

\* handleFrameCapture (part_002:107-221) up to its await, or to its end when
\* it does not call the remote endpoint.  The request body carries the
\* samples as they are: JSON.stringify writes a finite number so that
\* JSON.parse reads the same number back, and every sample is finite.
HandleFrameCapture(limit) ==
  /\ frameLoop.running
  /\ ~TimerDue /\ ~FaceDue
  /\ now < limit
  /\ frameLoop.isRecording /\ ppgProcessorRef # "null"
  /\ frameCountRef' = frameCountRef + 1
  /\ LET imageData == FrameOf(scene, now).imageData
         roi == IF frameLoop.lastDetectedFace # Null
                  THEN frameLoop.lastDetectedFace
                  ELSE CenterROI(imageData)
         signal == extractPPGSignal(imageData, roi)
     IN /\ addFrame(imageData, roi)
        /\ signalBufferRef' = PushBounded(signalBufferRef, signal, 150)
        /\ fed' = Append(fed, signal)
        /\ onlyInvalid' = (onlyInvalid /\ HasNoSampledPixel(imageData, roi))
  /\ LET quality == getSignalQuality(signalBuffer')
     IN /\ signalQuality' = quality
        /\ IF frameCountRef' % 10 = 0 /\ frameCountRef' > 30
             THEN LET heartRate ==
                        calculateHeartRateForWindow(signalBuffer',
                                                    heartRateHistory,
                                                    heartRateWindow10s)
                      breathingRate ==
                        getBreathingRate(signalBuffer', breathingRateHistory)
                      hrv == getHRV(signalBuffer', hrvHistory)
                      bufferSize == Len(signalBuffer')
                      metrics == [heartRate |-> heartRate.val,
                                  breathingRate |-> breathingRate.val,
                                  hrv |-> hrv.val, quality |-> quality]
                  IN /\ heartRateHistory' = heartRate.hist
                     /\ breathingRateHistory' = breathingRate.hist
                     /\ hrvHistory' = hrv.hist
                     /\ ret' = [op |-> "handleFrameCapture", metrics |-> metrics]
                     /\ IF bufferSize >= 60 /\ Len(signalBufferRef') >= 60
                          THEN /\ pending' =
                                    Append(pending,
                                           [frame |-> frameCountRef',
                                            metrics |-> metrics,
                                            duration |-> frameLoop.duration,
                                            body |->
                                              [signal |-> Array(signalBufferRef'),
                                               samplingRate |-> 30]])
                               /\ UNCHANGED <<currentMetric, measurements,
                                              graphData>>
                          ELSE /\ \E random \in [1 .. 2 -> RandomDraws] :
                                    Publish(
                                      createFallbackBiomarkers(
                                        metrics.heartRate,
                                        metrics.breathingRate, metrics.hrv,
                                        metrics.quality, random, now),
                                      frameLoop.duration)
                               /\ UNCHANGED pending
             ELSE /\ ret' = Returned("handleFrameCapture", 0)
                  /\ UNCHANGED <<heartRateHistory, breathingRateHistory,
                                 hrvHistory, currentMetric, measurements,
                                 graphData, pending>>
  /\ now' = now + 1
  /\ calls' = 0
  /\ UNCHANGED <<lastPeakIndex, peakIndices, isRecording, duration,
                 lastDetectedFace, recordingStartRef, durationIntervalRef,
                 ppgProcessorRef, frameLoop, clicks, scene, resets, pureVars>>

\* the pending requests without the i-th
WithoutRequest(i) ==
  SubSeq(pending, 1, i - 1) \o SubSeq(pending, i + 1, Len(pending))

\* fault variant: the catch block passes no signal quality
RecoverWithoutQuality(request, random, timestamp) ==
  createFallbackBiomarkers(request.metrics.heartRate,
                           request.metrics.breathingRate,
                           request.metrics.hrv, 0, random, timestamp)

\* the catch block of handleFrameCapture (part_002:171-183)
RecoverLocally(request, random, timestamp) ==
  createFallbackBiomarkers(request.metrics.heartRate,
                           request.metrics.breathingRate,
                           request.metrics.hrv, request.metrics.quality,
                           random, timestamp)

\* the rest of a suspended handleFrameCapture, from its catch block
Recover(i) ==
  \E random \in [1 .. 2 -> RandomDraws] :
    Publish(RecoverLocally(pending[i], random, now), pending[i].duration)

Settled(i, outcome) ==
  /\ pending' = WithoutRequest(i)
  /\ ret' = [op |-> "fetch", val |-> outcome, request |-> pending[i]]
  /\ UNCHANGED <<procVars, isRecording, duration, signalQuality,
                 lastDetectedFace, pageRefs, frameLoop, clicks, now, scene,
                 calls, resets, fed, onlyInvalid, pureVars>>

\* fetch rejects (the network fails): the handler resumes in its catch block
FetchRejects ==
  \E i \in 1 .. Len(pending) :
    /\ Recover(i)
    /\ Settled(i, [kind |-> "rejected"])

\* the answers the page may receive to a request: those of the route, an
\* error status from the server in front of it, and bodies that are not what
\* the route sends
PartialData == [heartRate |-> 72]
MalformedBodies ==
  {NotJSON, EmptyObject, [success |-> TRUE], [data |-> EmptyObject],
   [success |-> TRUE, data |-> PartialData]}
Responses(request, timestamp) ==
  {POST(request.body, random, timestamp) : random \in [1 .. 6 -> RandomDraws]}
    \cup {[status |-> 500, body |-> [error |-> "Internal Server Error"]],
          [status |-> 404, body |-> NotJSON]}
    \cup {[status |-> 200, body |-> b] : b \in MalformedBodies}

\* response.ok
IsOk(response) == response.status \in 200 .. 299

\* fetch resolves and the handler runs to its end (part_002:160-210)
FetchResolves ==
  \E i \in 1 .. Len(pending) :
    \E response \in Responses(pending[i], now) :
      /\ IF ~IsOk(response)
           \* throw new Error(...)
           THEN Recover(i)
         ELSE IF response.body = NotJSON
           \* response.json() rejects
           THEN Recover(i)
         ELSE IF ~HasProperty(response.body, "data")
           \* biomarkerData is undefined, and reading result.data.heartRate
           \* for the log throws a TypeError
           THEN Recover(i)
         ELSE Publish(response.body.data, pending[i].duration)
      /\ Settled(i, [kind |-> "response", response |-> response])

NextMonitor ==
  \/ StartRecording
  \/ StopRecording
  \/ ResetMeasurements
  \/ Tick
  \/ FaceDetected
  \/ HandleFrameCapture(MaxPageFrames)
  \/ FetchRejects
  \/ FetchResolves

SpecMonitor == InitMonitor /\ [][NextMonitor]_vars

\* A recording that the user stops at StopTime at the latest.  The camera
\* keeps delivering frames while the loop runs (requestAnimationFrame,
\* camera-feed.tsx:128-130), the interval timer keeps firing and the face
\* detector reports; the code sets no timer on its fetch (part_002:150-158),
\* so nothing makes a request settle.
NextStopped ==
  \/ (clicks = 0 /\ StartRecording)
  \/ StopRecording
  \/ Tick
  \/ FaceDetected
  \/ HandleFrameCapture(StopTime)
  \/ FetchRejects
  \/ FetchResolves

\* A recording long enough for two requests to be in flight at once: those of
\* the frames 60 and 70.  processFrame calls onFrameCapture without awaiting
\* it (camera-feed.tsx:119-125), so the frames go on while a request is
\* pending, and the requests settle in any order.
NextInFlight ==
  \/ (clicks = 0 /\ StartRecording)
  \/ Tick
  \/ FaceDetected
  \/ HandleFrameCapture(MaxFlightFrames)
  \/ FetchRejects
  \/ FetchResolves

SpecInFlight == InitMonitor /\ [][NextInFlight]_vars

\* The steps that the code's scheduling makes happen, each named by the
\* variable that only its action changes in this way: a frame of the running
\* loop (HandleFrameCapture advances the frame clock),
FrameStep(limit) ==
  /\ frameLoop.running
  /\ ~TimerDue /\ ~FaceDue
  /\ now < limit
  /\ frameLoop.isRecording /\ ppgProcessorRef # "null"
  /\ now' = now + 1

\* the interval callback (Tick counts the seconds),
TickStep == TimerDue /\ duration' = duration + 1

\* the face detector's report (FaceDetected),
FaceStep == FaceDue /\ lastDetectedFace' = FullROI

\* and the click on Stop at a click time (StopRecording)
StopStep ==
  /\ isRecording /\ now \in ClickTimes /\ clicks < MaxClicks
  /\ clicks' = clicks + 1

SpecStopped ==
  /\ InitMonitor
  /\ [][NextStopped]_vars
  /\ WF_now(FrameStep(StopTime))
  /\ WF_duration(TickStep)
  /\ WF_lastDetectedFace(FaceStep)
  /\ WF_clicks(StopStep)

---------------------------------------------------------------------------
\* createFallbackBiomarkers and calculateBiomarkers applied twice to inputs
\* of their own, within one millisecond
FallbackInputs ==
  [heartRate : {0, 45, 72, 200}, breathingRate : {0, 8, 16, 30},
   hrv : {0, 50, 100}, quality : {0, 80}]
SignalInputs ==
  [signal : [1 .. 5 -> {0, Scale}] \cup [1 .. MaxSignal -> {0, Scale}],
   samplingRate : {1, 2}]
\* values outside the ranges the processor reports
FallbackExtremes ==
  [heartRate : {-200, 1000}, breathingRate : {-10, 100},
   hrv : {-100, 300}, quality : {0, 100}]
PressureInputs ==
  [heartRate : {-200, 0, 72, 200, 1000},
   signal : {<< >>, <<0, 0>>, <<0, Scale>>, <<0, 10 * Scale>>,
             <<-3 * Scale, 3 * Scale>>},
   ageEstimate : {35}]
ScoreInputs ==
  [heartRate : {-200, 0, 60, 65, 200, 1000},
   breathingRate : {0, 16 * Scale, 30 * Scale, 100 * Scale},
   hrv : {-100, 0, 50, 100, 300}, sysBP : {80, 120, 180},
   parasympatheticHealth : {0, 50, 100}]

InitBiomarkers ==
  /\ InitProcessor
  /\ now = 0 /\ scene = NoFace /\ ret = Returned("new", 0)
  /\ calls = 0 /\ resets = 0
  /\ fed = << >> /\ onlyInvalid = TRUE
  /\ arg \in FallbackInputs \cup SignalInputs \cup FallbackExtremes
               \cup PressureInputs \cup ScoreInputs
  /\ InitPage

CreateFallbackBiomarkers ==
  /\ HasProperty(arg, "quality")
  /\ calls < MaxDerivations
  /\ \E random \in [1 .. 2 -> RandomDraws] :
       ret' = Returned("createFallbackBiomarkers",
                       createFallbackBiomarkers(arg.heartRate,
                                                arg.breathingRate, arg.hrv,
                                                arg.quality, random, now))
  /\ calls' = calls + 1
  /\ UNCHANGED <<procVars, now, scene, resets, fed, onlyInvalid, pureVars,
                 pageVars>>

CalculateBiomarkers ==
  /\ HasProperty(arg, "samplingRate")
  /\ calls < MaxDerivations
  /\ \E random \in [1 .. 6 -> RandomDraws] :
       ret' = Returned("calculateBiomarkers",
                       calculateBiomarkers(arg.signal, arg.samplingRate,
                                           random, now))
  /\ calls' = calls + 1
  /\ UNCHANGED <<procVars, now, scene, resets, fed, onlyInvalid, pureVars,
                 pageVars>>

EstimateBloodPressure ==
  /\ HasProperty(arg, "ageEstimate")
  /\ calls < MaxDerivations
  /\ ret' = Returned("estimateBloodPressure",
                     estimateBloodPressure(arg.heartRate, arg.signal))
  /\ calls' = calls + 1
  /\ UNCHANGED <<procVars, now, scene, resets, fed, onlyInvalid, pureVars,
                 pageVars>>

CalculateParasympatheticHealth ==
  /\ HasProperty(arg, "sysBP")
  /\ calls < MaxDerivations
  /\ ret' = Returned("calculateParasympatheticHealth",
                     calculateParasympatheticHealth(arg.hrv, arg.heartRate))
  /\ calls' = calls + 1
  /\ UNCHANGED <<procVars, now, scene, resets, fed, onlyInvalid, pureVars,
                 pageVars>>

CalculateWellnessValue ==
  /\ HasProperty(arg, "sysBP")
  /\ calls < MaxDerivations
  /\ ret' = Returned("calculateWellnessValue", calculateWellnessValue(arg))
  /\ calls' = calls + 1
  /\ UNCHANGED <<procVars, now, scene, resets, fed, onlyInvalid, pureVars,
                 pageVars>>

CalculateStressIndex ==
  /\ HasProperty(arg, "sysBP")
  /\ calls < MaxDerivations
  /\ ret' = Returned("calculateStressIndex", calculateStressIndex(arg))
  /\ calls' = calls + 1
  /\ UNCHANGED <<procVars, now, scene, resets, fed, onlyInvalid, pureVars,
                 pageVars>>

NextBiomarkers ==
  \/ CreateFallbackBiomarkers
  \/ CalculateBiomarkers
  \/ EstimateBloodPressure
  \/ CalculateParasympatheticHealth
  \/ CalculateWellnessValue
  \/ CalculateStressIndex

SpecBiomarkers == InitBiomarkers /\ [][NextBiomarkers]_vars

---------------------------------------------------------------------------
\* POST /api/biomarkers applied to a request body of any shape
Signals == UNION {[1 .. n -> {0, Scale}] : n \in 0 .. MaxSignal}
ArrayBodies == {[signal |-> Array(signal)] : signal \in Signals}
OtherBodies ==
  {NotJSON, Null, EmptyObject, [samplingRate |-> 30]}
    \cup {[signal |-> signal] : signal \in NonArrays}
    \cup {[signal |-> signal, samplingRate |-> 1] : signal \in NonArrays}

InitRoute ==
  /\ InitProcessor
  /\ now = 0 /\ scene = NoFace /\ ret = Returned("new", 0)
  /\ calls = 0 /\ resets = 0
  /\ fed = << >> /\ onlyInvalid = TRUE
  /\ (arg \in ArrayBodies \/ arg \in OtherBodies)
  /\ InitPage

Post ==
  /\ calls < MaxCalls
  /\ \E random \in [1 .. 6 -> RandomDraws] :
       LET run == POSTRun(arg, random, now)
       IN ret' = [op |-> "POST", val |-> run.response,
                  thrown |-> run.thrown, called |-> run.called]
  /\ calls' = calls + 1
  /\ UNCHANGED <<procVars, now, scene, resets, fed, onlyInvalid, pureVars,
                 pageVars>>

NextRoute == Post

SpecRoute == InitRoute /\ [][NextRoute]_vars

---------------------------------------------------------------------------
\* The three smoothing histories, driven by the peaks a full window can
\* show: the getters from their peak lists on (steps 5-9 of
\* calculateHeartRateForWindow, the SDNN part of getHRV, the rate part of
\* getBreathingRate).  Peak indices are positions in the window, at least 9
\* apart for the cardiac detector and more than 60 apart for the breathing
\* detector.
MaxTracked == 8

\* no peak, one peak, and intervals of 25 (72 per minute), 20 (90), 17-17-16
\* (108), 12 (150), 50 (36, clamped to 45), 20-30 (72) and 25-25 (72, a
\* perfectly regular pulse)
CardiacPeakLists ==
  {<< >>, <<10>>, <<10, 35>>, <<10, 30>>, <<10, 27, 44, 60>>, <<10, 22>>,
   <<10, 60>>, <<10, 30, 60>>, <<10, 35, 60>>}
\* no peak, and intervals of 120 (15 per minute), 75 (24) and 300 (6,
\* clamped to 8)
BreathingPeakLists == {<< >>, <<60, 180>>, <<60, 135>>, <<60, 360>>}

InitTracker ==
  /\ InitProcessor
  /\ now = 0 /\ scene = NoFace /\ ret = Returned("new", 0)
  /\ calls = 0 /\ resets = 0
  /\ fed = << >> /\ onlyInvalid = TRUE
  /\ arg = << >>
  /\ InitPage

\* One run follows one getter: each getter reads and writes only its own
\* history.
Tracked(op, peaks, val) ==
  /\ ret.op \in {"new", op}
  /\ calls < MaxTracked
  /\ calls' = calls + 1
  /\ arg' = peaks
  /\ ret' = Returned(op, val)
  /\ UNCHANGED <<signalBuffer, rBuffer, gBuffer, bBuffer, timestampBuffer,
                 lastPeakIndex, peakIndices, now, scene, resets, fed,
                 onlyInvalid, pageVars>>

TrackHeartRate ==
  \E peaks \in CardiacPeakLists :
    LET r == HeartRateFromPeaks(peaks, heartRateHistory)
    IN /\ heartRateHistory' = r.hist
       /\ Tracked("calculateHeartRateForWindow", peaks, r.val)
       /\ UNCHANGED <<hrvHistory, breathingRateHistory>>

TrackHRV ==
  \E peaks \in CardiacPeakLists :
    LET r == HRVFromPeaks(peaks, hrvHistory)
    IN /\ hrvHistory' = r.hist
       /\ Tracked("getHRV", peaks, r.val)
       /\ UNCHANGED <<heartRateHistory, breathingRateHistory>>

TrackBreathingRate ==
  \E peaks \in BreathingPeakLists :
    LET r == BreathingRateFromPeaks(peaks, breathingRateHistory)
    IN /\ breathingRateHistory' = r.hist
       /\ Tracked("getBreathingRate", peaks, r.val)
       /\ UNCHANGED <<heartRateHistory, hrvHistory>>

NextTracker == TrackHeartRate \/ TrackHRV \/ TrackBreathingRate

SpecTracker == InitTracker /\ [][NextTracker]_vars

---------------------------------------------------------------------------
\* Properties of the processor

Kept(n) == IF n < 1800 THEN n ELSE 1800
ColorOfFrame(k) ==
  LET frame == FrameOf(scene, k)
  IN extractROIColor(frame.imageData, frame.roi)

\* C1: each of the five buffers holds at most 1800 samples, and after any
\* sequence of addFrame calls holds exactly the most recent min(n, 1800)
\* samples fed since construction or reset, oldest first.
BufferKeepsMostRecent ==
  LET n == Len(fed)
      kept == Kept(n)
  IN /\ Len(signalBuffer) <= 1800
     /\ Len(signalBuffer) = kept /\ Len(rBuffer) = kept
     /\ Len(gBuffer) = kept /\ Len(bBuffer) = kept
     /\ Len(timestampBuffer) = kept
     /\ signalBuffer = SubSeq(fed, n - kept + 1, n)
     /\ timestampBuffer = [i \in 1 .. kept |-> now - kept + i - 1]
     /\ kept > 0 =>
          /\ rBuffer[1] = ColorOfFrame(n - kept).r
          /\ gBuffer[1] = ColorOfFrame(n - kept).g
          /\ bBuffer[1] = ColorOfFrame(n - kept).b
          /\ rBuffer[kept] = ColorOfFrame(n - 1).r
          /\ gBuffer[kept] = ColorOfFrame(n - 1).g
          /\ bBuffer[kept] = ColorOfFrame(n - 1).b

\* a frame has just been added to a full buffer and the oldest one evicted
BufferEvictedOldest ==
  /\ Len(fed) > 1800 /\ Len(signalBuffer) = 1800
  /\ ret.op = "addFrame"
  /\ signalBuffer[1] # fed[1]

RateGetters == {"getHeartRate", "getHeartRate4s"}
InClamp(v, lo, hi) == v = 0 \/ (lo <= v /\ v <= hi)

\* C2: every value returned by getHeartRate is 0 or within [45, 200] and
\* every value returned by getBreathingRate is 0 or within [8, 30]; the
\* values kept in the two histories, from which the smoothed results are
\* formed, lie within the same bounds.
RatesWithinClamp ==
  /\ ret.op \in RateGetters => InClamp(ret.val, 45, 200)
  /\ ret.op = "getBreathingRate" => InClamp(ret.val, 8, 30)
  /\ \A i \in 1 .. Len(heartRateHistory) :
       45 <= heartRateHistory[i] /\ heartRateHistory[i] <= 200
  /\ \A i \in 1 .. Len(breathingRateHistory) :
       8 <= breathingRateHistory[i] /\ breathingRateHistory[i] <= 30

\* a breath every 250 frames, 7.2 per minute, has been reported as the lower
\* bound 8, after a heart rate had been accepted
BreathingRateClampedAtFloor ==
  /\ scene = SineBreath
  /\ ret.op = "getBreathingRate" /\ ret.val = 8
  /\ breathingRateHistory = <<8>>
  /\ heartRateHistory # << >>

Histories == <<heartRateHistory, breathingRateHistory, hrvHistory>>
ValueGetters ==
  RateGetters \cup {"getHRV", "getBreathingRate", "getSignalQuality",
                    "getBufferSize", "getBufferDuration"}

\* C3: after reset() the buffer size is 0, the five buffers and the three
\* histories are empty, and every getter returns 0.
ResetClearsEverything ==
  (ret.op = "reset" \/ (resets > 0 /\ Len(fed) = 0)) =>
    /\ signalBuffer = << >> /\ rBuffer = << >> /\ gBuffer = << >>
    /\ bBuffer = << >> /\ timestampBuffer = << >>
    /\ heartRateHistory = << >> /\ breathingRateHistory = << >>
    /\ hrvHistory = << >>
    /\ getBufferSize = 0
    /\ calculateHeartRateForWindow(signalBuffer, heartRateHistory, 300).val = 0
    /\ calculateHeartRateForWindow(signalBuffer, heartRateHistory, 120).val = 0
    /\ getHRV(signalBuffer, hrvHistory).val = 0
    /\ getBreathingRate(signalBuffer, breathingRateHistory).val = 0
    /\ getSignalQuality(signalBuffer) = 0
    /\ ret.op \in ValueGetters => ret.val = 0

\* a getter has answered after a reset that followed at least 300 frames
GetterCalledAfterReset ==
  /\ resets > 0 /\ Len(fed) = 0 /\ now >= 300
  /\ scene = Sine25
  /\ ret.op = "getHeartRate" /\ ret.val = 0

\* C4: with an empty buffer every getter returns 0; with fewer samples than
\* its minimum window (heart rate 300, 4-second heart rate 120, HRV 300,
\* breathing 180, quality 60) a getter returns 0 and changes no history.
ShortOf(op, n) ==
  \/ op = "getHeartRate" /\ n < 300
  \/ op = "getHeartRate4s" /\ n < 120
  \/ op = "getHRV" /\ n < 300
  \/ op = "getBreathingRate" /\ n < 180
  \/ op = "getSignalQuality" /\ n < 60
ShortBufferStep ==
  /\ (ret'.op \in ValueGetters /\ Len(signalBuffer) = 0) => ret'.val = 0
  /\ ShortOf(ret'.op, Len(signalBuffer)) =>
       ret'.val = 0 /\ UNCHANGED Histories
ShortBufferReturnsZero == [][ShortBufferStep]_vars

\* getHeartRate answered 0 one sample short of its window, although the
\* history already held a value accepted by the 4-second getter
ShortWindowWithHistory ==
  /\ ret.op = "getHeartRate" /\ Len(signalBuffer) = 299
  /\ ret.val = 0 /\ heartRateHistory # << >>

\* C5: a frame without a sampled pixel appends exactly one sample, of signal
\* 0 and r = g = b = 0, and while every frame of the session was such a
\* frame the heart-rate, breathing, HRV and quality getters return 0.
InvalidFrameStep ==
  LET frame == FrameOf(scene, Len(fed))
      n == Len(signalBuffer')
  IN (ret'.op = "addFrame"
        /\ HasNoSampledPixel(frame.imageData, frame.roi)) =>
       /\ n = Kept(Len(signalBuffer) + 1)
       /\ signalBuffer' = SliceLast(Append(signalBuffer, 0), n)
       /\ rBuffer' = SliceLast(Append(rBuffer, 0), n)
       /\ gBuffer' = SliceLast(Append(gBuffer, 0), n)
       /\ bBuffer' = SliceLast(Append(bBuffer, 0), n)
InvalidSessionReturnsZero ==
  (onlyInvalid /\ ret.op \in (ValueGetters
                               \ {"getBufferSize", "getBufferDuration"}))
    => ret.val = 0
InvalidFramesAreZero ==
  [][InvalidFrameStep]_vars /\ []InvalidSessionReturnsZero

\* 300 frames without a sampled pixel, then a heart rate of 0
InvalidSessionAsked ==
  /\ onlyInvalid /\ Len(fed) = 300 /\ Len(signalBuffer) = 300
  /\ ret.op = "getHeartRate" /\ ret.val = 0

\* consecutive entries of peaks rise by at least distance, and by at least 1
SpacedBy(peaks, distance) ==
  \A i \in 1 .. (Len(peaks) - 1) :
    /\ peaks[i] < peaks[i + 1]
    /\ peaks[i + 1] - peaks[i] >= distance

\* C6: the indices returned by detectPeaksAdvanced are strictly increasing
\* and consecutive ones are at least 9 apart; those returned by
\* detectBreathingPeaks are strictly increasing and consecutive ones are at
\* least its minPeakDistance argument apart.
PeaksAreSpaced ==
  /\ ret.op = "detectPeaksAdvanced" => SpacedBy(ret.val, 9)
  /\ ret.op = "detectBreathingPeaks" => SpacedBy(ret.val, ret.minPeakDistance)

\* the local maximum at index 7 was passed over for being 4 after the peak at
\* 3, and the one at index 12 accepted
PeakTooCloseSkipped ==
  /\ ret.op = "detectPeaksAdvanced" /\ ret.val = <<3, 12>>
  /\ arg[8] = Scale /\ \A j \in {5, 6, 7, 9, 10, 11} : arg[j] = 0

\* the element at 0-based index k of s sorted ascending: fewer than k + 1
\* elements lie below it and at least k + 1 do not exceed it
Ranked(s, k) ==
  CHOOSE v \in {s[i] : i \in 1 .. Len(s)} :
    /\ Cardinality({i \in 1 .. Len(s) : s[i] < v}) <= k
    /\ Cardinality({i \in 1 .. Len(s) : s[i] <= v}) > k
\* the median as the code takes it: the middle element, the upper of the two
\* middle ones for an even length
MedianOf(s) == Ranked(s, Len(s) \div 2)
MadOf(s) ==
  Ranked([i \in 1 .. Len(s) |-> MathAbs(s[i] - MedianOf(s))], Len(s) \div 2)
WithinMad(s) ==
  LET Near(v) == 2 * MathAbs(v - MedianOf(s)) <= 5 * MadOf(s)
  IN SelectSeq(s, Near)
InjectedOutlier == <<20, 21, 19, 20, 80, 20>>

\* C7: for an interval list of length >= 2 with a non-zero MAD,
\* filterOutlierIBIs returns exactly the intervals v with
\* |v - median| <= 2.5 * MAD, in their original order; for
\* [20,21,19,20,80,20] it returns [20,21,19,20,20] and the rate computed from
\* the list is 90 per minute.
OutliersFiltered ==
  /\ (ret.op = "filterOutlierIBIs" /\ Len(arg) >= 2 /\ MadOf(arg) # 0) =>
       ret.val = WithinMad(arg)
  /\ (ret.op = "filterOutlierIBIs" /\ arg = InjectedOutlier) =>
       ret.val = <<20, 21, 19, 20, 20>>
  /\ (ret.op = "calculateHeartRateForWindow" /\ arg = InjectedOutlier) =>
       ret.val = 90

\* the list with the injected outlier has been filtered
InjectedOutlierFiltered ==
  /\ ret.op = "filterOutlierIBIs" /\ arg = InjectedOutlier
  /\ Len(ret.val) = 5

---------------------------------------------------------------------------
\* the values both derivations compute from their inputs
DerivedFields ==
  {"sysBP", "diaBP", "hrv", "breathingRate", "parasympatheticHealth",
   "wellnessValue", "stressIndex"}
Derivations == {"createFallbackBiomarkers", "calculateBiomarkers"}

\* C8: two calls of createFallbackBiomarkers with the same heartRate,
\* breathingRate, hrv and quality, or of calculateBiomarkers with the same
\* signal and sampling rate, return the same sysBP, diaBP, hrv,
\* breathingRate, parasympatheticHealth, wellnessValue and stressIndex.
\* (The input arg does not change between the two calls.)
DerivationIsPure ==
  [][(ret.op \in Derivations /\ ret'.op = ret.op)
       => \A f \in DerivedFields : ret'.val[f] = ret.val[f]]_vars

---------------------------------------------------------------------------
\* a suspended handler resumes in this step with the outcome ret'.val
FetchSettled == ret'.op = "fetch" /\ Len(pending') < Len(pending)
FailedOutcome(outcome) ==
  \/ outcome.kind = "rejected"
  \/ outcome.kind = "response" /\ outcome.response.status \notin 200 .. 299

\* the step publishes a snapshot that createFallbackBiomarkers computes, at
\* this instant, from the metrics the handler read from the processor
PublishesLocalSnapshot(request) ==
  \E random \in [1 .. 2 -> RandomDraws] :
    LET snapshot == createFallbackBiomarkers(request.metrics.heartRate,
                                             request.metrics.breathingRate,
                                             request.metrics.hrv,
                                             request.metrics.quality,
                                             random, now)
    IN /\ measurements' = Append(measurements, snapshot)
       /\ currentMetric' = snapshot

\* the handler that calls the remote endpoint keeps the values the processor
\* returned in that frame
RequestKeepsMetrics ==
  Len(pending') > Len(pending)
    => LET request == pending'[Len(pending')]
       IN /\ ret'.op = "handleFrameCapture"
          /\ request.metrics = ret'.metrics
          /\ request.metrics.quality = signalQuality'
          /\ request.metrics.quality = getSignalQuality(signalBuffer')

\* C9: when fetch rejects or the response status is not OK, the snapshot of
\* that derivation is the one createFallbackBiomarkers computes from the
\* processor's heart rate, breathing rate, HRV and quality; it is appended to
\* the measurements, and the recording goes on (isRecording, the frame loop,
\* the timer and the processor are untouched).
RemoteFailureStep ==
  /\ RequestKeepsMetrics
  /\ (FetchSettled /\ FailedOutcome(ret'.val))
       => /\ PublishesLocalSnapshot(ret'.request)
          /\ UNCHANGED <<isRecording, frameLoop, durationIntervalRef,
                         ppgProcessorRef, procVars>>
RemoteFailureRecoversLocally == [][RemoteFailureStep]_vars

\* a request made with a signal quality above 0 was answered with status
\* 500 while recording, and its snapshot is the third of the session
RemoteFailureRecovered ==
  /\ ret.op = "fetch"
  /\ ret.val.kind = "response" /\ ret.val.response.status = 500
  /\ ret.request.metrics.quality > 0
  /\ isRecording
  /\ Len(measurements) = 3
  /\ measurements[3].timestamp = now

---------------------------------------------------------------------------
\* the body of a response is not { data: BiomarkerData }
Malformed(body) ==
  \/ body = NotJSON
  \/ ~HasProperty(body, "data")
  \/ \E f \in BiomarkerFields : ~HasProperty(body.data, f)

\* C10: a response with an OK status and a malformed body is never adopted:
\* the snapshot published for it is the local derivation.
MalformedResponseStep ==
  (/\ FetchSettled
   /\ ret'.val.kind = "response"
   /\ ret'.val.response.status \in 200 .. 299
   /\ Malformed(ret'.val.response.body))
    => PublishesLocalSnapshot(ret'.request)
MalformedResponseNeverAdopted == [][MalformedResponseStep]_vars

---------------------------------------------------------------------------
\* a handler is suspended at its fetch
Suspended == pending # << >>

\* C11: every derivation delegated to the remote endpoint eventually yields
\* a snapshot: a handler suspended at its fetch eventually resumes and
\* publishes, even when the remote never responds.  (At most one handler is
\* suspended at a time in a recording of StopTime frames.)
DelegatedDerivationYieldsSnapshot == Suspended ~> ~Suspended

\* the body has no signal, a signal that is not an array, or an array of
\* fewer than 5 samples
SignalRefused(body) ==
  LET signal == Property(body, "signal")
  IN \/ signal = Undefined
     \/ signal.type # "array"
     \/ Len(signal.values) < 5

\* C12: POST /api/biomarkers answers a request whose signal is missing, not
\* an array or shorter than 5 samples with status 400 and an error message
\* and without calling calculateBiomarkers, and answers with status 500 and
\* an error message whenever an exception was raised while it handled the
\* request.
RouteRejectsInvalidSignal ==
  ret.op = "POST" =>
    /\ HasProperty(ret.val.body, "error") <=> ret.val.status # 200
    /\ ret.thrown # "" <=> ret.val.status = 500
    /\ (ret.thrown = "" /\ SignalRefused(arg)) =>
         /\ ret.val.status = 400
         /\ ret.called = << >>
    /\ ret.val.status = 200 => ~SignalRefused(arg)

\* a signal of 4 samples was refused
ShortSignalRefused ==
  /\ ret.op = "POST" /\ ret.val.status = 400
  /\ HasProperty(arg, "signal") /\ arg.signal.type = "array"
  /\ Len(arg.signal.values) = 4

Scores == {"calculateParasympatheticHealth", "calculateWellnessValue",
           "calculateStressIndex"}

Within(v, lo, hi) == lo <= v /\ v <= hi

\* C13: every snapshot of createFallbackBiomarkers and calculateBiomarkers,
\* and every value of estimateBloodPressure, calculateParasympatheticHealth,
\* calculateWellnessValue and calculateStressIndex, has sysBP within
\* [80, 180], diaBP within [50, 120] and the three scores within [0, 100],
\* whatever numbers go in.
LocalSnapshotsInRange ==
  /\ ret.op \in Derivations =>
       /\ Within(ret.val.sysBP, 80, 180)
       /\ Within(ret.val.diaBP, 50, 120)
       /\ Within(ret.val.parasympatheticHealth, 0, 100)
       /\ Within(ret.val.wellnessValue, 0, 100)
       /\ Within(ret.val.stressIndex, 0, 100)
  /\ ret.op = "estimateBloodPressure" =>
       /\ Within(ret.val.systolic, 80, 180)
       /\ Within(ret.val.diastolic, 50, 120)
  /\ ret.op \in Scores => Within(ret.val, 0, 100)

\* a heart rate of 1000 and an HRV of 300 gave a snapshot at the upper ends
\* of the ranges
ExtremeInputsClamped ==
  /\ ret.op = "createFallbackBiomarkers"
  /\ arg.heartRate = 1000 /\ arg.hrv = 300
  /\ ret.val.sysBP = 180 /\ ret.val.diaBP = 120
  /\ ret.val.wellnessValue = 100

\* getHeartRate() is called for the first time on the 300 frames of the
\* scene Sine25, on a processor whose history is still empty
FirstReadingOfSine25 ==
  /\ scene = Sine25 /\ Len(fed) = heartRateWindow10s
  /\ heartRateHistory = << >>
  /\ ret'.op = "getHeartRate" /\ calls' = calls + 1

\* C14: after 300 frames at 30 Hz of a pulsation with a period of 25 frames
\* (1.2 Hz, 72 beats per minute) fed to a fresh processor, getHeartRate()
\* returns a value within 5 of 72.
SinePulseWithinFiveOf72 ==
  [][FirstReadingOfSine25 => MathAbs(ret'.val - 72) <= 5]_vars

\* getHeartRate() returned 72 for the 300 frames of Sine25
SinePulseRead ==
  /\ scene = Sine25 /\ Len(fed) = heartRateWindow10s
  /\ ret.op = "getHeartRate" /\ ret.val = 72
  /\ heartRateHistory = <<72>>

\* a heart-rate derivation on a full window
HeartRateDerived ==
  ret'.op = "calculateHeartRateForWindow" /\ calls' = calls + 1

\* the window shows fewer than 2 peaks, or none of its intervals survives
\* the outlier filter
NoInterval(peaks) ==
  \/ Len(peaks) < 2
  \/ Len(filterOutlierIBIs(calculateIBIs(peaks))) = 0

\* C15: a heart-rate derivation on a full window that finds fewer than 2
\* peaks or no surviving interval returns 0, whatever the heart-rate history
\* holds.
NoSignalReportsZero ==
  [][(HeartRateDerived /\ NoInterval(arg')) => ret'.val = 0]_vars

\* the raw heart rate of a window with these peaks, clamped to [45, 200]
\* (steps 5-8)
RawHeartRate(peaks) ==
  LET validIBIs == filterOutlierIBIs(calculateIBIs(peaks))
  IN ClampHeartRate([num |-> 60 * samplingRate * Len(validIBIs),
                     den |-> SumSeq(validIBIs, 1, Len(validIBIs))])

\* the derivation computed a raw value and isPhysiologicallyValid refused it
RawValueRejected ==
  /\ HeartRateDerived /\ ~NoInterval(arg')
  /\ ~isPhysiologicallyValid(RawHeartRate(arg'), heartRateHistory)

\* the weighted average of a non-empty history, entry i weighing 2^i
WeightedAverage(h) == MathRound(WeightedSum(h, Len(h)), Pow2(Len(h)) - 1)

\* C16: when isPhysiologicallyValid refuses a raw heart rate, the call
\* leaves heartRateHistory as it was and returns the weighted average of
\* that history.
RejectedValueLeavesHistory ==
  [][RawValueRejected =>
       /\ heartRateHistory' = heartRateHistory
       /\ ret'.val = WeightedAverage(heartRateHistory)]_vars

\* 150 was refused against a history of 72 and 90, and 84 returned
RejectedValueSeen ==
  /\ ret.op = "calculateHeartRateForWindow" /\ arg = <<10, 22>>
  /\ heartRateHistory = <<72, 90>> /\ ret.val = 84

\* the raw rate num/den lies more than 25 from the value v
DeviatesFrom(heartRate, v) ==
  MathAbs(heartRate.num - v * heartRate.den) > 25 * heartRate.den

\* C17: with a non-empty history, a raw heart rate is refused exactly when
\* it lies more than 25 from the weighted average that the tracker returns
\* for that history, and is appended to the history otherwise.
PlausibilityAgainstSmoothedValue ==
  [][(HeartRateDerived /\ ~NoInterval(arg') /\ heartRateHistory # << >>) =>
       LET raw == RawHeartRate(arg')
       IN IF DeviatesFrom(raw, WeightedAverage(heartRateHistory))
            THEN heartRateHistory' = heartRateHistory
            ELSE heartRateHistory' =
                   PushBounded(heartRateHistory,
                               MathRound(raw.num, raw.den), 6)]_vars

\* every entry of the history is an integer of lo .. hi, and there are at
\* most cap of them
HistoryWithin(history, cap, lo, hi) ==
  /\ Len(history) <= cap
  /\ \A i \in 1 .. Len(history) : history[i] \in lo .. hi

\* from one state to the next a history stays as it is, gains one entry at
\* its end, or, when it is full, loses its first entry and gains one at its
\* end
FirstInFirstOut(before, after, cap) ==
  \/ after = before
  \/ Len(before) < cap /\ Len(after) = Len(before) + 1
       /\ SubSeq(after, 1, Len(before)) = before
  \/ Len(before) = cap /\ Len(after) = cap
       /\ SubSeq(after, 1, cap - 1) = Tail(before)

\* C18: the heart-rate history never holds more than 6 entries, the HRV
\* history 5 and the breathing-rate history 3; a call changes a history only
\* by appending one entry, dropping the oldest one when the history is full;
\* every entry is an integer of [45, 200], [1, 100] and [8, 30].
HistoriesBoundedFifo ==
  /\ [](/\ HistoryWithin(heartRateHistory, 6, 45, 200)
        /\ HistoryWithin(hrvHistory, 5, 1, 100)
        /\ HistoryWithin(breathingRateHistory, 3, 8, 30))
  /\ [][/\ FirstInFirstOut(heartRateHistory, heartRateHistory', 6)
        /\ FirstInFirstOut(hrvHistory, hrvHistory', 5)
        /\ FirstInFirstOut(breathingRateHistory, breathingRateHistory', 3)]_vars

\* a full heart-rate history that begins with 108 and 72: 72 cannot follow
\* 108 in a history of two, so older entries have been dropped
OldestEntriesDropped ==
  /\ Len(heartRateHistory) = 6
  /\ heartRateHistory[1] = 108 /\ heartRateHistory[2] = 72

\* a detector has scanned the window arg with the threshold ret.threshold
WindowScanned ==
  /\ ret.op \in {"detectPeaksAdvanced", "detectBreathingPeaks"}
  /\ HasProperty(ret, "threshold")

\* the window is a normalised signal: its least value is 0, its greatest 1
Normalised(signal) ==
  MinOf(signal, 1, Len(signal)) = 0 /\ MaxOf(signal, 1, Len(signal)) = Scale

\* C19: whenever detectPeaksAdvanced or detectBreathingPeaks scans a window,
\* its threshold is a percentile of the window: the value at some rank of
\* the window's sorted values.
ThresholdIsPercentile ==
  (WindowScanned /\ Normalised(arg)) =>
    \E k \in 0 .. (Len(arg) - 1) : ret.threshold = SortedAt(arg, k)

\* the i-th sample (0-based) is greater than each of the three samples
\* before it and the three after it
StrictLocalMax(signal, i) ==
  \A d \in 1 .. 3 :
    signal[i + 1] > signal[i + 1 - d] /\ signal[i + 1] > signal[i + 1 + d]

\* C20: every index that detectPeaksAdvanced returns holds a sample
\* strictly greater than the threshold and strictly greater than its three
\* neighbours on each side.
PeaksExceedThreshold ==
  (ret.op = "detectPeaksAdvanced" /\ HasProperty(ret, "threshold")) =>
    \A p \in 1 .. Len(ret.val) :
      /\ arg[ret.val[p] + 1] > ret.threshold
      /\ StrictLocalMax(arg, ret.val[p])

\* index i (0-based) of the window passes the threshold test and the
\* local-maximum test of detectPeaksAdvanced
Candidate(signal, threshold, i) ==
  /\ ~(signal[i + 1] < threshold)
  /\ StrictLocalMax(signal, i)

\* the indices the loop of detectPeaksAdvanced visits
Scanned(signal) == 3 .. (Len(signal) - 4)

\* the returned index p lies in the exclusion zone before i
Excludes(p, i) == p < i /\ i - p < 9

\* C21: detectPeaksAdvanced returns candidates only, in rising order, and a
\* candidate is returned exactly when no returned index lies fewer than 9
\* samples before it, whatever the values of the two samples: the earlier
\* candidate is kept and a later one inside its zone is dropped.
FirstCandidateWins ==
  (ret.op = "detectPeaksAdvanced" /\ HasProperty(ret, "threshold")) =>
    LET peaks == {ret.val[p] : p \in 1 .. Len(ret.val)}
    IN /\ \A p \in 1 .. (Len(ret.val) - 1) : ret.val[p] < ret.val[p + 1]
       /\ \A i \in peaks : i \in Scanned(arg) /\ Candidate(arg, ret.threshold, i)
       /\ \A i \in Scanned(arg) :
            Candidate(arg, ret.threshold, i) =>
              (i \in peaks <=> ~(\E p \in peaks : Excludes(p, i)))

\* the sample of 0.5 at index 3 was accepted and the sample of 1 at index 8,
\* a candidate five samples later, was dropped
HigherCandidateDropped ==
  /\ ret.op = "detectPeaksAdvanced" /\ ret.val = <<3>>
  /\ arg[4] = Scale \div 2 /\ arg[9] = Scale
  /\ Candidate(arg, ret.threshold, 8)

\* filterOutlierIBIs has taken the branch mad === 0 and returned its input
RetainedForZeroMad ==
  /\ ret.op = "filterOutlierIBIs" /\ Len(arg) >= 2
  /\ MadOf(arg) = 0 /\ ret.val = arg

\* C22: whenever filterOutlierIBIs finds a MAD of 0 and returns every
\* interval, all the intervals of its input are equal.
ZeroMadMeansIdentical ==
  RetainedForZeroMad => \A i, j \in 1 .. Len(arg) : arg[i] = arg[j]

\* the sample at position k of the signal buffer is the one extractPPGSignal
\* computes from the colours at position k of the three channel buffers
SameFrameAt(k) ==
  LET r == rBuffer[k] \div 255
      g == gBuffer[k] \div 255
      b == bBuffer[k] \div 255
  IN signalBuffer[k] = g - ((r + b) \div 2)

\* C23: the five buffers have the same length and position k of each holds
\* the same frame (checked at the oldest, the middle and the newest
\* position); peakIndices is empty and lastPeakIndex is -1 in every state.
BuffersAligned ==
  LET n == Len(signalBuffer)
  IN /\ Len(rBuffer) = n /\ Len(gBuffer) = n /\ Len(bBuffer) = n
     /\ Len(timestampBuffer) = n
     /\ \A k \in {1, (n + 1) \div 2, n} \cap (1 .. n) :
          /\ SameFrameAt(k)
          /\ timestampBuffer[k] = timestampBuffer[1] + k - 1
     /\ peakIndices = << >> /\ lastPeakIndex = -1

\* a heart rate has been derived from a buffer that has been shifted
DerivedAfterShift ==
  /\ Len(fed) > maxBufferSize
  /\ ret.op = "getHeartRate" /\ heartRateHistory # << >>

\* the measurement list and the graph data are empty and no metric is shown
Cleared ==
  measurements = << >> /\ graphData = << >> /\ currentMetric = Null

\* C24: the step that follows resetMeasurements, unless it starts a
\* recording, leaves the measurement list and the graph data empty and the
\* current metric null, also when it is the completion of a request issued
\* before the reset.
ResetStaysCleared ==
  [][(ret.op = "resetMeasurements" /\ ~isRecording') => Cleared']_vars

\* a suspended handleFrameCapture has resumed and appended its snapshot
Resumed == Len(pending') < Len(pending)

\* C25: when a suspended handler resumes and appends its snapshot, no
\* handler of an earlier frame is still suspended: the snapshots enter the
\* measurement list in the order of their frames.
AppendedInFrameOrder ==
  [][Resumed => \A j \in 1 .. Len(pending') : pending'[j].frame > ret'.request.frame]_vars

\* the raw rate num/den lies more than 25 from the arithmetic mean of the
\* non-empty history
FarFromMean(heartRate, history) ==
  LET sum == SumSeq(history, 1, Len(history))
  IN MathAbs(heartRate.num * Len(history) - sum * heartRate.den) > 25 * heartRate.den * Len(history)

\* a derivation on a window whose raw rate lies more than 25 from the mean
\* of the non-empty history
ShiftedDerivation ==
  /\ HeartRateDerived /\ ~NoInterval(arg')
  /\ heartRateHistory # << >>
  /\ FarFromMean(RawHeartRate(arg'), heartRateHistory)

\* C26: with a non-empty history, a raw heart rate more than 25 from the
\* arithmetic mean of the history is not inserted, the history stays as it
\* was, and the call returns what the call before it returned: while the raw
\* rate stays that far away, every derivation returns the same value.
SustainedShiftLocksOut ==
  [][ShiftedDerivation =>
       /\ heartRateHistory' = heartRateHistory
       /\ ret.op = "calculateHeartRateForWindow" => ret'.val = ret.val]_vars

\* 72 was accepted once and every later derivation, the last of them on a
\* window of 150 per minute, has returned 72
ShiftStillRefused ==
  /\ calls = MaxTracked /\ heartRateHistory = <<72>>
  /\ ret.op = "calculateHeartRateForWindow" /\ arg = <<10, 22>>
  /\ ret.val = 72

\* a getter of the processor has been called
GetterCalled == calls' = calls + 1

\* the history after the call is the one before it, or that one with one
\* value pushed (and the oldest shifted out past cap entries)
AtMostOnePushed(before, after, cap) ==
  \/ after = before
  \/ after # << >> /\ after = PushBounded(before, after[Len(after)], cap)

\* C27: no getter changes the five buffers or the peak state;
\* getSignalQuality, getBufferSize and getBufferDuration change no field at
\* all; getHeartRate and getHeartRate4s change at most heartRateHistory,
\* getBreathingRate at most breathingRateHistory and getHRV at most
\* hrvHistory, each by pushing at most one entry.
GettersKeepToTheirHistory ==
  [][GetterCalled =>
       /\ UNCHANGED <<signalBuffer, rBuffer, gBuffer, bBuffer, timestampBuffer, lastPeakIndex, peakIndices>>
       /\ ret'.op \in {"getSignalQuality", "getBufferSize", "getBufferDuration"} =>
            UNCHANGED <<heartRateHistory, breathingRateHistory, hrvHistory>>
       /\ ret'.op \in {"getHeartRate", "getHeartRate4s"} =>
            /\ UNCHANGED <<breathingRateHistory, hrvHistory>>
            /\ AtMostOnePushed(heartRateHistory, heartRateHistory', 6)
       /\ ret'.op = "getBreathingRate" =>
            /\ UNCHANGED <<heartRateHistory, hrvHistory>>
            /\ AtMostOnePushed(breathingRateHistory, breathingRateHistory', 3)
       /\ ret'.op = "getHRV" =>
            /\ UNCHANGED <<heartRateHistory, breathingRateHistory>>
            /\ AtMostOnePushed(hrvHistory, hrvHistory', 5)]_vars

\* getHeartRate4s has pushed a second entry onto the heart-rate history of a
\* buffer of 300 frames
SecondEntryPushed ==
  /\ ret.op = "getHeartRate4s" /\ Len(heartRateHistory) >= 2
  /\ Len(signalBuffer) = heartRateWindow10s

\* C28: getBreathingRate on a buffer of fewer than 182 samples returns 0 and
\* leaves the breathing-rate history empty.
BreathingNeeds182Samples ==
  (ret.op = "getBreathingRate" /\ Len(signalBuffer) < 182) =>
    ret.val = 0 /\ breathingRateHistory = << >>

\* the breathing rate of a buffer of 181 samples has been read in the scene
\* in which a buffer of 182 samples shows two peaks
BreathingReadAt181 ==
  ret.op = "getBreathingRate" /\ Len(signalBuffer) = 181 /\ scene = TwoBreaths

\* getHRV has been called on a full window
HRVDerived == ret'.op = "getHRV" /\ calls' = calls + 1

\* at least 3 peaks, all the same distance apart: the SDNN is 0
RegularPulse(peaks) ==
  /\ Len(peaks) >= 3
  /\ \A i \in 2 .. (Len(peaks) - 1) : peaks[i + 1] - peaks[i] = peaks[2] - peaks[1]

\* the rounded mean of a history, 0 for the empty one
MeanOrZero(h) ==
  IF h = << >> THEN 0 ELSE MathRound(SumSeq(h, 1, Len(h)), Len(h))

\* C29: getHRV on a window with at least 3 equally spaced peaks, whose SDNN
\* is 0, leaves hrvHistory as it was and returns the mean of that history, or
\* 0 when it is empty: what it returns for a window with fewer than 3 peaks.
RegularPulseReadsAsNoValue ==
  [][(HRVDerived /\ RegularPulse(arg')) =>
       /\ hrvHistory' = hrvHistory
       /\ ret'.val = MeanOrZero(hrvHistory)
       /\ ret'.val = HRVFromPeaks(<< >>, hrvHistory).val]_vars

\* a regular pulse has been read as the HRV of the window before it
RegularPulseReadAsEarlierValue ==
  /\ ret.op = "getHRV" /\ arg = <<10, 35, 60>>
  /\ hrvHistory # << >> /\ ret.val > 0

\* C30: for a non-empty interval list filterOutlierIBIs returns a non-empty
\* list that holds the median of its input, and the heart rate derived from
\* the list with an empty history is a rate of 45 to 200, not the 0 of the
\* branch for a list filtered empty.
MedianSurvivesFilter ==
  /\ (ret.op = "filterOutlierIBIs" /\ Len(arg) >= 1) =>
       /\ Len(ret.val) >= 1
       /\ \E i \in 1 .. Len(ret.val) : ret.val[i] = MedianOf(arg)
  /\ (ret.op = "calculateHeartRateForWindow" /\ Len(arg) >= 1) =>
       45 <= ret.val /\ ret.val <= 200

\* the filter has dropped intervals from a list of MaxIbis and kept the
\* median
MedianKeptAmongDropped ==
  /\ ret.op = "filterOutlierIBIs" /\ Len(arg) = MaxIbis
  /\ Len(ret.val) < Len(arg) - 1
  /\ \E i \in 1 .. Len(ret.val) : ret.val[i] = MedianOf(arg)

=============================================================================
